---------------------------- MODULE Spec2Model ----------------------------
(* Orcinus: a questionnaire-driven generator of ORCA input files.          *)
(*                                                                         *)
(* The module models the packaged application (src/orcinus): the generic   *)
(* Questionnaire engine (src/orcinus/gui/questionnaire.py), the field      *)
(* schema and the input generator of InputGUI (src/orcinus/gui/__init__.py)*)
(* and the ORCAInput document (src/orcinus/__init__.py).                   *)
EXTENDS Integers, Sequences, FiniteSets, TLC

(***************************************************************************)
(* Python values.  A value carries its runtime type, so that truthiness,   *)
(* equality and str() behave as they do in Python.  Floats are kept in     *)
(* hundredths (the schema rounds them to two decimals).  Bad is the        *)
(* content of a Tcl variable whose get() raises TclError.                  *)
(***************************************************************************)
None == [t |-> "n"]
Bad == [t |-> "bad"]
I(n) == [t |-> "i", i |-> n]
B(b) == [t |-> "b", b |-> b]
S(s) == [t |-> "s", s |-> s]
F(h) == [t |-> "f", f |-> h]

IsStr(a) == a.t = "s"

Truthy(a) ==
  CASE a.t = "n" -> FALSE
    [] a.t = "i" -> a.i # 0
    [] a.t = "b" -> a.b
    [] a.t = "s" -> a.s # ""
    [] a.t = "f" -> a.f # 0

Abs(n) == IF n < 0 THEN -n ELSE n

\* str() of a float held in hundredths: 20 -> "0.2", 15 -> "0.15", 100 -> "1.0"
FloatStr(h) ==
  LET a == Abs(h)
      frac == a % 100
  IN  (IF h < 0 THEN "-" ELSE "") \o ToString(a \div 100) \o "." \o
      (IF frac % 10 = 0 THEN ToString(frac \div 10)
       ELSE IF frac < 10 THEN "0" \o ToString(frac)
       ELSE ToString(frac))

\* str(v), as used by the f-strings and by ORCAInput.generate
PyStr(a) ==
  CASE a.t = "n" -> "None"
    [] a.t = "i" -> ToString(a.i)
    [] a.t = "b" -> IF a.b THEN "True" ELSE "False"
    [] a.t = "s" -> a.s
    [] a.t = "f" -> FloatStr(a.f)

(***************************************************************************)
(* Python string operations.                                               *)
(***************************************************************************)
\* sub in s
Contains(sub, s) ==
  \E p \in 1..(Len(s) - Len(sub) + 1) : SubSeq(s, p, p + Len(sub) - 1) = sub

StartsWith(s, pre) == Len(s) >= Len(pre) /\ SubSeq(s, 1, Len(pre)) = pre

RECURSIVE Replace(_, _, _)
\* s.replace(old, new), old non-empty: leftmost non-overlapping occurrences
Replace(s, old, new) ==
  IF Len(s) < Len(old) THEN s
  ELSE IF StartsWith(s, old)
       THEN new \o Replace(SubSeq(s, Len(old) + 1, Len(s)), old, new)
       ELSE SubSeq(s, 1, 1) \o Replace(SubSeq(s, 2, Len(s)), old, new)

Upper == "ABCDEFGHIJKLMNOPQRSTUVWXYZ"
LowerCase == "abcdefghijklmnopqrstuvwxyz"

LowerChar(c) ==
  IF \E p \in 1..26 : SubSeq(Upper, p, p) = c
  THEN LET p == CHOOSE q \in 1..26 : SubSeq(Upper, q, q) = c
       IN  SubSeq(LowerCase, p, p)
  ELSE c

RECURSIVE Lower(_)
\* s.lower()
Lower(s) ==
  IF s = "" THEN ""
  ELSE LowerChar(SubSeq(s, 1, 1)) \o Lower(SubSeq(s, 2, Len(s)))

RECURSIVE Join(_, _)
\* sep.join(strs)
Join(strs, sep) ==
  IF strs = <<>> THEN ""
  ELSE IF Len(strs) = 1 THEN strs[1]
  ELSE strs[1] \o sep \o Join(Tail(strs), sep)

\* range(a, b, step) and np.arange over integers, step > 0
range(a, b, step) ==
  [p \in 1..(IF b > a THEN (b - a + step - 1) \div step ELSE 0) |->
     I(a + (p - 1) * step)]

\* np.arange over floats, in hundredths
arange(a, b, step) ==
  [p \in 1..(IF b > a THEN (b - a + step - 1) \div step ELSE 0) |->
     F(a + (p - 1) * step)]

Range(f) == {f[x] : x \in DOMAIN f}

\* [x for x in seq if x is not None]
NotNone(seq) == SelectSeq(seq, LAMBDA x : x # None)

(***************************************************************************)
(* The field schema passed to Questionnaire by InputGUI.create_widgets.    *)
(* A descriptor holds only the keys the source gives it; "values" is       *)
(* list(desc["values"]) (the keys of a dict domain, in order) and "map"    *)
(* the translated values of a dict domain.  The switch lambdas are in      *)
(* switch below.                                                           *)
(***************************************************************************)
FieldNames ==
  <<"short description", "task", "charge", "spin", "unrestricted", "uco",
    "theory", "frozen core", "triples correction", "dftb:hamiltonian",
    "dft:family", "dft:lda", "dft:gga", "dft:hybrid", "dft:meta-gga",
    "dft:meta-hybrid", "dft:rs-hybrid", "dft:double-hybrid",
    "dft:rs-double-hybrid", "dispersion", "basis:family", "basis:def2",
    "basis:cc", "basis:pople", "numerical:quality", "dlpno", "ri",
    "ri:hf", "nprocs", "memory", "solvation", "solvation:model",
    "solvation:cpcm", "solvation:smd", "solvation:gbsa", "relativity",
    "spin-orbit coupling", "ecp", "excited states", "shielding-h",
    "shielding-c", "shielding-p", "coupling-h", "coupling-c",
    "coupling-p", "nbo", "scf:maxiter", "geom:step", "geom:trust",
    "geom:update_trust", "coordinates used", "calculate frequencies",
    "geom:maxiter", "geom:tight", "hessian update scheme",
    "initial hessian", "convergence criteria", "freq:restart",
    "freq:scaling", "nuclear model", "excited states:method",
    "tddft:nroots", "tddft:tda", "tddft:nto", "tddft:maxdim",
    "output:level", "output:mos", "output:basis", "wavefunction file">>

Fields == Range(FieldNames)

\* the list comprehended by fields["task"]["values"]
task_values ==
  <<S("Energy"), S("Opt"), S("Freq"), S("Opt+Freq"), S("OptTS"),
    S("OptTS+Freq"), S("IRC"), S("OptTS+Freq+IRC"), S("NEB"),
    S("NEB+Freq"), S("NEB+Freq+IRC")>>

\* the list comprehended by fields["dft:family"]["values"]
dft_families ==
  <<S("LDA"), S("GGA"), S("meta-GGA"), S("Hybrid"), S("RS-Hybrid"),
    S("meta-Hybrid"), S("Double-Hybrid"), S("RS-Double-Hybrid")>>

\* the list comprehended by fields["basis:family"]["values"]
basis_families ==
  <<S("def2"), S("cc"), S("Pople")>>

fields ==
  [name \in Fields |->
    CASE name = "short description" ->
           [widget |-> "Entry",
            type |-> "str"]
      [] name = "task" ->
           [values |-> task_values,
            map |-> [p \in DOMAIN task_values |->
                       S(Replace(task_values[p].s, "+", " "))],
            default |-> S("Opt+Freq")]
      [] name = "charge" ->
           [widget |-> "Spinbox",
            values |-> range(-100, 101, 1),
            default |-> I(0)]
      [] name = "spin" ->
           [widget |-> "Spinbox",
            values |-> range(1, 101, 1),
            switch |-> TRUE]
      [] name = "unrestricted" ->
           [widget |-> "Checkbutton",
            default |-> B(FALSE)]
      [] name = "uco" ->
           [widget |-> "Checkbutton",
            values |-> <<B(FALSE), B(TRUE)>>,
            map |-> <<None, S("UCO")>>,
            switch |-> TRUE]
      [] name = "theory" ->
           [values |-> <<S("MM"), S("HF"), S("DFTB"), S("DFT"), S("MP2"), S("CCSD")>>,
            default |-> S("DFT")]
      [] name = "frozen core" ->
           [widget |-> "Checkbutton",
            values |-> <<B(TRUE), B(FALSE)>>,
            map |-> <<None, S("NoFrozenCore")>>,
            switch |-> TRUE]
      [] name = "triples correction" ->
           [widget |-> "Checkbutton",
            default |-> B(TRUE),
            switch |-> TRUE]
      [] name = "dftb:hamiltonian" ->
           [values |-> <<S("GFN1-xTB"), S("GFN2-xTB")>>,
            map |-> <<S("XTB1"), S("XTB2")>>,
            default |-> S("GFN2-xTB"),
            switch |-> TRUE]
      [] name = "dft:family" ->
           [values |-> dft_families,
            map |-> [p \in DOMAIN dft_families |-> S(Lower(dft_families[p].s))],
            default |-> S("GGA"),
            switch |-> TRUE]
      [] name = "dft:lda" ->
           [values |-> <<S("HFS"), S("VWN5"), S("VWN3"), S("PWLDA")>>,
            default |-> S("VWN5"),
            switch |-> TRUE]
      [] name = "dft:gga" ->
           [values |-> <<S("BP86"), S("BLYP"), S("OLYP"), S("GLYP"), S("XLYP"), S("PW91"),
                      S("mPWPW"), S("mPWLYP"), S("PBE"), S("rPBE"), S("revPBE"), S("PWP")>>,
            default |-> S("BLYP"),
            switch |-> TRUE]
      [] name = "dft:hybrid" ->
           [values |-> <<S("B1LYP"), S("B3LYP"), S("B3LYP/G"), S("O3LYP"), S("X3LYP"),
                      S("B1P"), S("B3P"), S("B3PW"), S("PW1PW"), S("mPW1PW"), S("mPW1LYP"),
                      S("PBE0"), S("PW6B95"), S("BHandHLYP")>>,
            default |-> S("B3LYP"),
            switch |-> TRUE]
      [] name = "dft:meta-gga" ->
           [values |-> <<S("TPSS"), S("M06L"), S("B97M-V"), S("B97M-D3BJ"), S("SCANfunc")>>,
            default |-> S("SCANfunc"),
            switch |-> TRUE]
      [] name = "dft:meta-hybrid" ->
           [values |-> <<S("TPSSh"), S("TPSS0"), S("M06"), S("M062X")>>,
            default |-> S("TPSSh"),
            switch |-> TRUE]
      [] name = "dft:rs-hybrid" ->
           [values |-> <<S("wB97"), S("wB97X"), S("wB97X-D3"), S("wB97X-V"), S("wB97X-D3BJ"),
                      S("wB97M-V"), S("wB97M-D3BJ"), S("CAM-B3LYPLC-BLYP")>>,
            default |-> S("wB97X"),
            switch |-> TRUE]
      [] name = "dft:double-hybrid" ->
           [values |-> <<S("B2PLYP"), S("B2PLYP-D"), S("B2PLYP-D3"), S("mPW2PLYP"),
                      S("mPW2PLYP-D"), S("B2GP-PLYP"), S("B2K-PLYP"), S("B2T-PLYP"),
                      S("PWPB95"), S("DSD-BLYP"), S("DSD-PBEP86"), S("DSD-PBEB95")>>,
            default |-> S("B2PLYP"),
            switch |-> TRUE]
      [] name = "dft:rs-double-hybrid" ->
           [values |-> <<S("wB2PLYP"), S("wB2GP-PLYP")>>,
            switch |-> TRUE]
      [] name = "dispersion" ->
           [values |-> <<None, S("D2"), S("D3Zero"), S("D3BJ"), S("D4")>>,
            default |-> S("D4"),
            switch |-> TRUE]
      [] name = "basis:family" ->
           [values |-> basis_families,
            map |-> [p \in DOMAIN basis_families |-> S(Lower(basis_families[p].s))],
            switch |-> TRUE]
      [] name = "basis:def2" ->
           [values |-> <<S("DZ(P)"), S("DZ(P)D"), S("DZP"), S("DZPD"), S("TZP(-f)"),
                      S("TZP(-f)D"), S("TZP"), S("TZPD"), S("TZPP"), S("TZPPD"), S("QZP"),
                      S("QZPP"), S("QZPPD")>>,
            map |-> <<S("def2-SV(P)"), S("ma-def2-SV(P)"), S("def2-SVP"), S("ma-def2-SVP"),
                   S("def2-TZVP(-f)"), S("ma-def2-TZVP(-f)"), S("def2-TZVP"),
                   S("ma-def2-TZVP"), S("def2-TZVPP"), S("ma-def2-TZVPP"),
                   S("def2-QZVP"), S("def2-QZVPP"), S("ma-def2-QZVPP")>>,
            default |-> S("TZP"),
            switch |-> TRUE]
      [] name = "basis:cc" ->
           [values |-> <<S("DZP"), S("DZPD"), S("TZP"), S("TZPD"), S("QZP"), S("QZPD"),
                      S("5ZP"), S("5ZPD"), S("6ZP"), S("6ZPD")>>,
            map |-> <<S("cc-pVDZ"), S("aug-cc-pVDZ"), S("cc-pVTZ"), S("aug-cc-pVTZ"),
                   S("cc-pVQZ"), S("aug-cc-pVQZ"), S("cc-pV5Z"), S("aug-cc-pV5Z"),
                   S("cc-pV6Z"), S("aug-cc-pV6Z")>>,
            default |-> S("TZP"),
            switch |-> TRUE]
      [] name = "basis:pople" ->
           [values |-> <<S("DZ"), S("DZ(P)"), S("DZP"), S("DZP(D)"), S("DZPD"), S("TZ"),
                      S("TZ(P)"), S("TZP"), S("TZP(D)"), S("TZPD")>>,
            map |-> <<S("6-31G"), S("6-31G(d)"), S("6-31G(d,p)"), S("6-31+G(d,p)"),
                   S("6-31++G(d,p)"), S("6-311G"), S("6-311G(2df)"),
                   S("6-311G(2df,2pd)"), S("6-311+G(2df,2pd)"), S("6-311++G(2df,2pd)")>>,
            default |-> S("TZP"),
            switch |-> TRUE]
      [] name = "numerical:quality" ->
           [values |-> <<S("Poor"), S("Fair"), S("Good"), S("Very Good"), S("Excellent"),
                      S("Extreme")>>,
            map |-> <<I(-1), I(0), I(1), I(2), I(3), I(4)>>,
            default |-> S("Good"),
            switch |-> TRUE]
      [] name = "dlpno" ->
           [widget |-> "Checkbutton",
            default |-> B(TRUE),
            switch |-> TRUE]
      [] name = "ri" ->
           [widget |-> "Checkbutton",
            default |-> B(TRUE),
            switch |-> TRUE]
      [] name = "ri:hf" ->
           [values |-> <<S("RIJONX"), S("RIJK"), S("RIJCOSX")>>,
            map |-> <<S("RIJONX"), S("RIJK"), S("RIJCOSX")>>,
            default |-> S("RIJCOSX"),
            switch |-> TRUE]
      [] name = "nprocs" ->
           [widget |-> "Spinbox",
            values |-> <<I(1), I(2), I(4), I(8), I(16), I(32)>>,
            default |-> I(6)]
      [] name = "memory" ->
           [widget |-> "Spinbox",
            values |-> range(6000, 18001, 500),
            default |-> I(12000)]
      [] name = "solvation" ->
           [widget |-> "Checkbutton",
            default |-> B(TRUE)]
      [] name = "solvation:model" ->
           [values |-> <<S("CPCM"), S("SMD")>>,
            default |-> S("SMD"),
            switch |-> TRUE]
      [] name = "solvation:cpcm" ->
           [values |-> <<S("Water"), S("Dimethyl sulfoxide"), S("Dimethylformamide"),
                      S("Acetonitrile"), S("Methanol"), S("Ethanol"), S("Ammonia"),
                      S("Acetone"), S("Pyridine"), S("1-Octanol"), S("Dichloromethane"),
                      S("Tetrahydrofuran"), S("Chloroform"), S("Toluene"), S("Benzene"),
                      S("Tetrachloromethane"), S("Cyclohexane"), S("n-Hexane")>>,
            map |-> <<S("Water"), S("DMSO"), S("DMF"), S("Acetonitrile"), S("Methanol"),
                   S("Ethanol"), S("Ammonia"), S("Acetone"), S("Pyridine"),
                   S("Octanol"), S("CH2Cl2"), S("THF"), S("Chloroform"), S("Toluene"),
                   S("Benzene"), S("CCl4"), S("Cyclohexane"), S("Hexane")>>,
            default |-> S("Water"),
            switch |-> TRUE]
      [] name = "solvation:smd" ->
           [values |-> <<S("Water"), S("Dimethyl sulfoxide"), S("Dimethylformamide"),
                      S("Acetonitrile"), S("Nitromethane"), S("Nitrobenzene"),
                      S("Methanol"), S("Ethanol"), S("Acetone"), S("Pyridine"),
                      S("1-Octanol"), S("Dichloromethane"), S("Tetrahydrofuran"),
                      S("Chloroform"), S("Diethyl ether"), S("Carbon disulfide"),
                      S("Toluene"), S("Benzene"), S("Tetrachloromethane"),
                      S("Cyclohexane"), S("n-Hexane")>>,
            map |-> <<S("Water"), S("DMSO"), S("DMF"), S("Acetonitrile"),
                   S("Nitromethane"), S("Nitrobenzene"), S("Methanol"), S("Ethanol"),
                   S("Acetone"), S("Pyridine"), S("1-Octanol"), S("Dichloromethane"),
                   S("THF"), S("Chloroform"), S("Diethyl ether"), S("Carbon disulfide"),
                   S("Toluene"), S("Benzene"), S("CCl4"), S("Cyclohexane"),
                   S("n-Hexane")>>,
            default |-> S("Water"),
            switch |-> TRUE]
      [] name = "solvation:gbsa" ->
           [values |-> <<S("Water"), S("Dimethyl sulfoxide"), S("Dimethylformamide"),
                      S("Acetonitrile"), S("Methanol"), S("Acetone"), S("Dichloromethane"),
                      S("Tetrahydrofuran"), S("Chloroform"), S("Diethyl ether"),
                      S("Carbon disulfide"), S("Toluene"), S("Benzene"), S("n-Hexane")>>,
            map |-> <<S("Water"), S("DMSO"), S("DMF"), S("Acetonitrile"), S("Methanol"),
                   S("Acetone"), S("CH2Cl2"), S("THF"), S("CHCl3"), S("Ether"),
                   S("CS2"), S("Toluene"), S("Benzene"), S("n-Hexan")>>,
            default |-> S("Water"),
            switch |-> TRUE]
      [] name = "relativity" ->
           [values |-> <<None, S("DKH"), S("ZORA")>>,
            switch |-> TRUE]
      [] name = "spin-orbit coupling" ->
           [widget |-> "Checkbutton",
            default |-> B(FALSE),
            switch |-> TRUE]
      [] name = "ecp" ->
           [values |-> <<None, S("def2-ECP")>>,
            default |-> S("def2-ECP"),
            switch |-> TRUE]
      [] name = "excited states" ->
           [widget |-> "Checkbutton",
            default |-> B(FALSE)]
      [] name = "shielding-h" ->
           [widget |-> "Checkbutton",
            default |-> B(TRUE)]
      [] name = "shielding-c" ->
           [widget |-> "Checkbutton",
            default |-> B(FALSE)]
      [] name = "shielding-p" ->
           [widget |-> "Checkbutton",
            default |-> B(FALSE)]
      [] name = "coupling-h" ->
           [widget |-> "Checkbutton",
            default |-> B(FALSE)]
      [] name = "coupling-c" ->
           [widget |-> "Checkbutton",
            default |-> B(FALSE)]
      [] name = "coupling-p" ->
           [widget |-> "Checkbutton",
            default |-> B(FALSE)]
      [] name = "nbo" ->
           [widget |-> "Checkbutton",
            default |-> B(FALSE)]
      [] name = "scf:maxiter" ->
           [widget |-> "Spinbox",
            values |-> <<S("Auto")>> \o range(100, 501, 50)]
      [] name = "geom:step" ->
           [values |-> <<S("Auto"), S("Rational function"),
                      S("partitioned Rational function"), S("quasi-Newton"), S("GDIIS")>>,
            map |-> <<None, S("step rfo"), S("step prfo"), S("step qn"), S("step gdiis")>>,
            switch |-> TRUE]
      [] name = "geom:trust" ->
           [widget |-> "Spinbox",
            values |-> arange(10, 51, 5),
            default |-> F(20),
            switch |-> TRUE]
      [] name = "geom:update_trust" ->
           [widget |-> "Checkbutton",
            default |-> B(TRUE),
            switch |-> TRUE]
      [] name = "coordinates used" ->
           [values |-> <<S("Delocalized")>>,
            switch |-> TRUE]
      [] name = "calculate frequencies" ->
           [widget |-> "Checkbutton",
            default |-> B(FALSE),
            switch |-> TRUE]
      [] name = "geom:maxiter" ->
           [widget |-> "Spinbox",
            values |-> range(30, 301, 10),
            switch |-> TRUE]
      [] name = "geom:tight" ->
           [widget |-> "Checkbutton",
            default |-> B(FALSE),
            switch |-> TRUE]
      [] name = "hessian update scheme" ->
           [values |-> <<S("Auto"), S("BFGS"), S("Bofill"), S("Powell")>>,
            switch |-> TRUE]
      [] name = "initial hessian" ->
           [values |-> <<S("Read"), S("Calculate"), S("Swart"), S("Lindh"), S("Almlöf"),
                      S("Schlegel"), S("Diagonal")>>,
            map |-> <<S("inhess read"), S("calc_hess true"), S("inhess swart"),
                   S("inhess lindh"), S("inhess almloef"), S("inhess schlegel"),
                   S("inhess unit")>>,
            default |-> S("Swart"),
            switch |-> TRUE]
      [] name = "convergence criteria" ->
           [values |-> <<S("Loose"), S("Normal"), S("Tight"), S("VeryTight")>>,
            default |-> S("Normal"),
            switch |-> TRUE]
      [] name = "freq:restart" ->
           [widget |-> "Checkbutton",
            default |-> B(FALSE)]
      [] name = "freq:scaling" ->
           [widget |-> "Spinbox",
            values |-> arange(95, 106, 1),
            default |-> F(100)]
      [] name = "nuclear model" ->
           [values |-> <<S("Point charge")>>]
      [] name = "excited states:method" ->
           [values |-> <<S("TD-DFT")>>,
            switch |-> TRUE]
      [] name = "tddft:nroots" ->
           [widget |-> "Spinbox",
            values |-> range(1, 101, 1),
            default |-> I(30),
            switch |-> TRUE]
      [] name = "tddft:tda" ->
           [widget |-> "Checkbutton",
            default |-> B(TRUE),
            switch |-> TRUE]
      [] name = "tddft:nto" ->
           [widget |-> "Checkbutton",
            default |-> B(FALSE),
            switch |-> TRUE]
      [] name = "tddft:maxdim" ->
           [widget |-> "Spinbox",
            values |-> range(2, 361, 1),
            default |-> I(10),
            switch |-> TRUE]
      [] name = "output:level" ->
           [values |-> <<S("Mini"), S("Small"), S("Normal"), S("Large")>>,
            map |-> <<S("MiniPrint"), S("SmallPrint"), S("NormalPrint"), S("LargePrint")>>,
            default |-> S("Small")]
      [] name = "output:mos" ->
           [widget |-> "Checkbutton",
            default |-> B(TRUE)]
      [] name = "output:basis" ->
           [widget |-> "Checkbutton",
            default |-> B(TRUE),
            switch |-> TRUE]
      [] name = "wavefunction file" ->
           [widget |-> "Checkbutton",
            default |-> B(FALSE)]]

Has(desc, key) == key \in DOMAIN desc

(***************************************************************************)
(* Questionnaire.create_widgets: type and default inference, and the kind  *)
(* of Tk variable created for a field.                                     *)
(***************************************************************************)
TypeName(a) ==
  CASE a.t = "i" -> "int"
    [] a.t = "b" -> "bool"
    [] a.t = "s" -> "str"
    [] a.t = "f" -> "float"
    [] OTHER -> "NoneType"

\* desc["type"]() for the types create_widgets accepts
Zero(type) ==
  CASE type = "int" -> I(0)
    [] type = "bool" -> B(FALSE)
    [] type = "str" -> S("")
    [] type = "float" -> F(0)

\* desc["type"] after lines 195-207; "IndexError" / "ValueError" when the
\* inference raises
resolved_type(desc) ==
  IF Has(desc, "type") THEN desc.type
  ELSE IF Has(desc, "default") /\ desc.default # None
       THEN TypeName(desc.default)
  ELSE IF Has(desc, "values")
       THEN IF NotNone(desc.values) = <<>> THEN "IndexError"
            ELSE TypeName(NotNone(desc.values)[1])
  ELSE "ValueError"

\* a variant of resolved_default that skips the null entries of the domain
resolved_default_valid(desc) ==
  IF Has(desc, "default") THEN desc.default
  ELSE IF Has(desc, "values")
       THEN IF NotNone(desc.values) = <<>> THEN [t |-> "IndexError"]
            ELSE NotNone(desc.values)[1]
  ELSE Zero(resolved_type(desc))

\* desc["default"] after lines 209-219
resolved_default(desc) ==
  IF Has(desc, "default") THEN desc.default
  ELSE IF Has(desc, "values")
       THEN IF desc.values = <<>> THEN [t |-> "IndexError"]
            ELSE desc.values[1]
  ELSE Zero(resolved_type(desc))

\* the body of the loop of create_widgets for one descriptor, lines 192-232:
\* the exception it raises ("" when none) and the descriptor it leaves.  The
\* np.round of line 230 raises TypeError on an entry that is not a number.
typed(desc) ==
  IF desc.type \notin {"int", "bool", "str", "float"}
  THEN [error |-> "ValueError: unknown type", desc |-> desc]
  ELSE IF /\ desc.type = "float" /\ Has(desc, "values")
          /\ \E p \in DOMAIN desc.values :
               desc.values[p].t \notin {"i", "f", "b"}
       THEN [error |-> "TypeError", desc |-> desc]
  ELSE [error |-> "", desc |-> desc]

create_widget(desc) ==
  IF resolved_type(desc) = "ValueError"
  THEN [error |-> "ValueError: could not infer type", desc |-> desc]
  ELSE IF resolved_type(desc) = "IndexError"
  THEN [error |-> "IndexError", desc |-> desc]
  ELSE IF ~Has(desc, "default") /\ Has(desc, "values") /\ desc.values = <<>>
  THEN [error |-> "IndexError",
        desc |-> [type |-> resolved_type(desc)] @@ desc]
  ELSE IF /\ ~Has(desc, "default") /\ ~Has(desc, "values")
          /\ desc.type \notin {"int", "bool", "str", "float"}
  THEN typed(desc)
  ELSE typed([type |-> resolved_type(desc),
              default |-> resolved_default(desc)] @@ desc)

type == [name \in Fields |-> resolved_type(fields[name])]
default == [name \in Fields |-> resolved_default(fields[name])]

\* the fields that get a Label (line 262)
Labelled ==
  {name \in Fields :
     ~(Has(fields[name], "widget") /\ fields[name].widget = "Checkbutton")}

\* isinstance(translator, dict)
IsDict(desc) == Has(desc, "map")

(***************************************************************************)
(* Tk variables.  variable[name] is the content of the Tcl variable.       *)
(***************************************************************************)
\* a freshly created IntVar / BooleanVar / StringVar / DoubleVar
fresh == [name \in Fields |-> Zero(type[name])]

\* Variable.set(value): a StringVar keeps str(value) (None becomes the text
\* "None"); the other kinds keep a value of their own kind, anything else
\* leaves a content that get() cannot read
tk_set(kind, value) ==
  IF kind = "str" THEN S(PyStr(value))
  ELSE IF TypeName(value) = kind THEN value
  ELSE Bad

\* try: variable[name].get() except TclError: fields[name]["default"]
get_or_default(variable, name) ==
  IF variable[name] = Bad THEN default[name] ELSE variable[name]

(***************************************************************************)
(* The switch lambdas of the schema, over options (the raw values).        *)
(***************************************************************************)
Wavefunction == {S("HF"), S("DFT"), S("MP2"), S("CCSD")}

switch(name, k) ==
  LET opt == Contains("Opt", k["task"].s)
      dft(family) == k["theory"] = S("DFT") /\ k["dft:family"] = S(family)
      tddft == Truthy(k["excited states"])
                 /\ k["excited states:method"] = S("TD-DFT")
  IN
  CASE name \in {"spin", "uco"} -> Truthy(k["unrestricted"])
    [] name = "frozen core" -> k["theory"] \in {S("MP2"), S("CCSD")}
    [] name = "triples correction" -> k["theory"] = S("CCSD")
    [] name = "dftb:hamiltonian" -> k["theory"] = S("DFTB")
    [] name = "dft:family" -> k["theory"] = S("DFT")
    [] name = "dft:lda" -> dft("LDA")
    [] name = "dft:gga" -> dft("GGA")
    [] name = "dft:hybrid" -> dft("Hybrid")
    [] name = "dft:meta-gga" -> dft("meta-GGA")
    [] name = "dft:meta-hybrid" -> dft("meta-Hybrid")
    [] name = "dft:rs-hybrid" -> dft("RS-Hybrid")
    [] name = "dft:double-hybrid" -> dft("Double-Hybrid")
    [] name = "dft:rs-double-hybrid" -> dft("RS-Double-Hybrid")
    [] name = "dispersion" -> k["theory"] = S("DFT")
    [] name = "basis:family" -> k["theory"] \in Wavefunction
    [] name = "basis:def2" ->
         k["basis:family"] = S("def2") /\ k["theory"] \in Wavefunction
    [] name = "basis:cc" ->
         k["basis:family"] = S("cc") /\ k["theory"] \in Wavefunction
    [] name = "basis:pople" ->
         k["basis:family"] = S("Pople") /\ k["theory"] \in Wavefunction
    [] name = "numerical:quality" -> k["theory"] \in Wavefunction
    [] name = "dlpno" ->
         \/ k["theory"] \in {S("MP2"), S("CCSD")}
         \/ /\ k["theory"] = S("DFT")
            /\ Contains("Double-Hybrid", k["dft:family"].s)
    [] name = "ri" ->
         \/ k["theory"] = S("HF")
         \/ k["theory"] \in {S("MP2"), S("CCSD")} /\ ~Truthy(k["dlpno"])
         \/ /\ k["theory"] = S("DFT")
            /\ \/ Contains("GGA", k["dft:family"].s)
               \/ Contains("Hybrid", k["dft:family"].s)
    [] name = "ri:hf" ->
         /\ Truthy(k["ri"]) \/ Truthy(k["dlpno"])
         /\ \/ k["theory"] \in {S("HF"), S("MP2"), S("CCSD")}
            \/ /\ k["theory"] = S("DFT")
               /\ Contains("Hybrid", k["dft:family"].s)
    [] name = "solvation:model" ->
         Truthy(k["solvation"]) /\ k["theory"] # S("DFTB")
    [] name = "solvation:cpcm" ->
         /\ Truthy(k["solvation"]) /\ k["theory"] # S("DFTB")
         /\ k["solvation:model"] = S("CPCM")
    [] name = "solvation:smd" ->
         /\ Truthy(k["solvation"]) /\ k["theory"] # S("DFTB")
         /\ k["solvation:model"] = S("SMD")
    [] name = "solvation:gbsa" ->
         Truthy(k["solvation"]) /\ k["theory"] = S("DFTB")
    [] name \in {"relativity", "ecp"} -> k["theory"] \in Wavefunction
    [] name = "spin-orbit coupling" -> k["theory"] # S("DFTB")
    [] name \in {"geom:step", "geom:trust", "coordinates used",
                 "calculate frequencies", "geom:maxiter", "geom:tight",
                 "hessian update scheme", "initial hessian",
                 "convergence criteria"} -> opt
    [] name = "geom:update_trust" ->
         opt /\ k["geom:step"] # S("quasi-Newton")
    [] name = "excited states:method" -> Truthy(k["excited states"])
    [] name \in {"tddft:nroots", "tddft:tda", "tddft:nto", "tddft:maxdim"} ->
         tddft
    [] name = "output:basis" -> k["output:level"] # S("Large")

(***************************************************************************)
(* Questionnaire.  q is the questionnaire's widget state:                  *)
(*   q.visible[name]  fields[name]["visible"]                              *)
(*   q.widget[name]   the widget is gridded (shown)                        *)
(*   q.label[name]    the label is gridded, for the fields that have one   *)
(***************************************************************************)
\* the state create_widgets leaves before it calls init_widgets
created ==
  [visible |-> [name \in Fields |-> TRUE],
   widget |-> [name \in Fields |-> TRUE],
   label |-> [name \in Labelled |-> TRUE]]

\* a variant of toggle that leaves the label on the screen
toggle_widget(q, name) ==
  [visible |-> [q.visible EXCEPT ![name] = ~q.visible[name]],
   widget |-> [q.widget EXCEPT ![name] = ~q.visible[name]],
   label |-> q.label]

toggle(q, name) ==
  LET show == ~q.visible[name]
  IN  [visible |-> [q.visible EXCEPT ![name] = ~q.visible[name]],
       widget |-> [q.widget EXCEPT ![name] = show],
       label |-> IF name \in DOMAIN q.label
                 THEN [q.label EXCEPT ![name] = show]
                 ELSE q.label]

\* an enable that toggles whatever the flag
enable_unguarded(q, name) == toggle(q, name)

enable(q, name) == IF q.visible[name] THEN q ELSE toggle(q, name)

disable(q, name) == IF ~q.visible[name] THEN q ELSE toggle(q, name)

\* options of Questionnaire.update_widgets (lines 282-287)
options(variable) ==
  [name \in Fields |-> get_or_default(variable, name)]

\* the body of the loop of update_widgets for one field (lines 297-301)
switched(q, k, name) ==
  IF Has(fields[name], "switch")
  THEN IF switch(name, k) THEN enable(q, name) ELSE disable(q, name)
  ELSE q

\* The loop of update_widgets (lines 289-301) over the options k.  enable
\* and disable change the entries of their own field only, and the options
\* are read before the loop, so the loop is taken field by field: each[name]
\* is the questionnaire after the round of name alone.
gathered(q, each) ==
  [visible |-> [name \in Fields |-> each[name].visible[name]],
   widget |-> [name \in Fields |-> each[name].widget[name]],
   label |-> [name \in DOMAIN q.label |-> each[name].label[name]]]

loop(q, k) == gathered(q, [name \in Fields |-> switched(q, k, name)])

\* Questionnaire.update_widgets
update_widgets(q, variable) == loop(q, options(variable))

KeyError == [t |-> "KeyError"]

\* translator[key]
lookup(desc, key) ==
  IF \E p \in DOMAIN desc.values : desc.values[p] = key
  THEN desc.map[CHOOSE p \in DOMAIN desc.values : desc.values[p] = key]
  ELSE KeyError

\* a translation that lets the KeyError of the first lookup escape
translate_unguarded(desc, value) == lookup(desc, value)

\* the translation of get_values (lines 68-74): on a KeyError, the
\* translation of the default
translate(desc, value) ==
  IF lookup(desc, value) # KeyError THEN lookup(desc, value)
  ELSE lookup(desc, resolved_default(desc))

\* lines 64-65 and 75-76: the text "None" stands for None
none_if_text(value) == IF value = S("None") THEN None ELSE value

\* lines 67-74
translated(desc, value) ==
  IF Has(desc, "values") /\ IsDict(desc) THEN translate(desc, value)
  ELSE value

\* get_value without the test of the visibility flag
get_value_shown(shown, desc, raw) ==
  none_if_text(translated(desc, none_if_text(raw)))

\* the body of the loop of get_values for one field (lines 55-76), raw
\* being what lines 59-62 read
get_value(shown, desc, raw) ==
  IF ~shown THEN None
  ELSE none_if_text(translated(desc, none_if_text(raw)))

\* the loop of get_values (lines 54-76), k being the raw values
values_of(q, k) ==
  [name \in Fields |-> get_value(q.visible[name], fields[name], k[name])]

returned(q, values) ==
  [q |-> q,
   raised |-> \E name \in Fields : values[name] = KeyError,
   values |-> values]

answered(q, k) == returned(q, values_of(q, k))

\* Questionnaire.get_values: the questionnaire after update_widgets, the
\* mapping returned, and whether a KeyError escaped
get_values(q, variable) ==
  answered(update_widgets(q, variable), options(variable))
(***************************************************************************)
(* ORCAInput: an insertion-ordered mapping from section keys to lists.     *)
(*   inp.keys   the keys of _mapping in insertion order                    *)
(*   inp.at     key -> list                                                *)
(***************************************************************************)
ORCAInput == [keys |-> <<>>, at |-> <<>>]

\* a variant of getitem that puts a missing key before the others
getitem_first(inp, key) ==
  IF key \in Range(inp.keys) THEN inp
  ELSE [keys |-> <<key>> \o inp.keys, at |-> (key :> <<>>) @@ inp.at]

\* ORCAInput.__getitem__: a missing key is inserted with an empty list
getitem(inp, key) ==
  IF key \in Range(inp.keys) THEN inp
  ELSE [keys |-> Append(inp.keys, key), at |-> (key :> <<>>) @@ inp.at]

\* key in inp.  ORCAInput inherits the membership test and get from the
\* mapping base class: both evaluate inp[key] and answer False, or the
\* default, only on a KeyError, which __getitem__ never raises.
contains(inp, key) == [answer |-> TRUE, inp |-> getitem(inp, key)]

\* ORCAInput.__setitem__
setitem(inp, key, value) ==
  IF key \in Range(inp.keys) THEN [inp EXCEPT !.at[key] = value]
  ELSE [keys |-> Append(inp.keys, key), at |-> (key :> value) @@ inp.at]

\* ORCAInput.__delitem__ of a key of the mapping
delitem(inp, key) ==
  [keys |-> SelectSeq(inp.keys, LAMBDA k : k # key),
   at |-> [k \in DOMAIN inp.at \ {key} |-> inp.at[k]]]

\* inp[key].append(item)
append(inp, key, item) ==
  LET m == getitem(inp, key)
  IN  [m EXCEPT !.at[key] = Append(@, item)]

\* inp[key].extend(items)
extend(inp, key, items) ==
  LET m == getitem(inp, key)
  IN  [m EXCEPT !.at[key] = @ \o items]

\* inp[key].append(item) if cond
append_if(cond, inp, key, item) == IF cond THEN append(inp, key, item) ELSE inp

\* the inline keys without the memory limit
inliners_legacy == <<"!", "*">>

inliners == <<"!", "maxcore", "*">>

\* [str(v) for v in value if v is not None]
strs(value) == [p \in DOMAIN NotNone(value) |-> PyStr(NotNone(value)[p])]

RECURSIVE blocks(_, _)
\* the loop over self.items() of generate (lines 43-55), from position idx
blocks(inp, idx) ==
  IF idx > Len(inp.keys) THEN <<>>
  ELSE LET key == inp.keys[idx]
           value == inp.at[key]
       IN  (IF \/ Range(value) = {None}
               \/ key \in Range(inliners)
               \/ key = "#"
            THEN <<>>
            ELSE <<"", "%" \o key>>
                   \o [p \in DOMAIN strs(value) |-> " " \o strs(value)[p]]
                   \o <<"end">>)
           \o blocks(inp, idx + 1)

\* a variant of generate that uses up the comments it writes
generate_draining(inp) ==
  LET i1 == getitem(inp, "#")
      i2 == getitem(getitem(getitem(i1, "!"), "maxcore"), "*")
      comments == [p \in DOMAIN i1.at["#"] |-> "# " \o PyStr(i1.at["#"][p])]
      inline(key) == Join(strs(i2.at[key]), " ")
  IN  [text |-> comments
                  \o <<"! " \o inline("!")>>
                  \o <<"%maxcore " \o inline("maxcore")>>
                  \o <<"", "* " \o inline("*")>>
                  \o blocks(i2, 1),
       inp |-> [i2 EXCEPT !.at["#"] = <<>>]]

\* ORCAInput.generate.  The text is returned as its sequence of lines: an
\* entry of `lines` that begins with "\n" gives an empty line and then the
\* rest of the entry.  The second component is the mapping afterwards
\* (generate reads self["#"] and the inliners, which inserts missing keys).
generate(inp) ==
  LET i1 == getitem(inp, "#")
      i2 == getitem(getitem(getitem(i1, "!"), "maxcore"), "*")
      comments == [p \in DOMAIN i1.at["#"] |-> "# " \o PyStr(i1.at["#"][p])]
      inline(key) == Join(strs(i2.at[key]), " ")
  IN  [text |-> comments
                  \o <<"! " \o inline("!")>>
                  \o <<"%maxcore " \o inline("maxcore")>>
                  \o <<"", "* " \o inline("*")>>
                  \o blocks(i2, 1),
       inp |-> i2]

(***************************************************************************)
(* Helpers for the generator.                                              *)
(***************************************************************************)
\* the printable characters in code-point order (without quote, backslash and backquote)
Ascii ==
  " !#$%&'()" \o "*+,-./0123456789:;<=>?@ABCDEFGHIJKLMNOPQRSTUVWXYZ[]^_"
    \o "abcdefghijklmnopqrstuvwxyz{|}~"

Ord(c) == CHOOSE p \in 1..Len(Ascii) : SubSeq(Ascii, p, p) = c

RECURSIVE StrLess(_, _)
\* a < b on Python strings
StrLess(a, b) ==
  IF b = "" THEN FALSE
  ELSE IF a = "" THEN TRUE
  ELSE IF SubSeq(a, 1, 1) = SubSeq(b, 1, 1)
       THEN StrLess(SubSeq(a, 2, Len(a)), SubSeq(b, 2, Len(b)))
       ELSE Ord(SubSeq(a, 1, 1)) < Ord(SubSeq(b, 1, 1))

RECURSIVE sorted(_)
\* sorted(set of strings), as a list of values
sorted(set) ==
  IF set = {} THEN <<>>
  ELSE LET least == CHOOSE a \in set : \A b \in set \ {a} : StrLess(a, b)
       IN  <<S(least)>> \o sorted(set \ {least})

\* int(a / b) for b # 0: the quotient truncated towards zero
int_div(a, b) ==
  LET quot == Abs(a) \div Abs(b)
  IN  IF (a < 0) = (b < 0) THEN quot ELSE -quot

Min(a, b) == IF a < b THEN a ELSE b

\* the multiplicity passed on as it is
spin_unchanged(v) == v["spin"]

\* lines 1188-1189: v["spin"] after the coercion
coerced_spin(v) == IF ~Truthy(v["spin"]) THEN I(1) ELSE v["spin"]

\* an ri that is left at None when RI and DLPNO are both off
ri_unmarked(v) ==
  IF v["theory"] # S("DFTB")
  THEN IF ~Truthy(v["ri"]) /\ ~Truthy(v["dlpno"]) THEN None
       ELSE IF v["theory"] = S("DFT") /\ Contains("gga", v["dft:family"].s)
            THEN S("RI")
       ELSE IF Truthy(v["ri:hf"]) /\ v["ri:hf"] # S("Auto")
            THEN v["ri:hf"]
       ELSE None
  ELSE None

\* lines 1203-1211: the local ri
resolved_ri(v) ==
  IF v["theory"] # S("DFTB")
  THEN IF ~Truthy(v["ri"]) /\ ~Truthy(v["dlpno"]) THEN S("NoRI")
       ELSE IF v["theory"] = S("DFT") /\ Contains("gga", v["dft:family"].s)
            THEN S("RI")
       ELSE IF Truthy(v["ri:hf"]) /\ v["ri:hf"] # S("Auto")
            THEN v["ri:hf"]
       ELSE None
  ELSE None

\* every auxiliary basis set collected, AutoAux or not
aux_keywords_all(auxbas) == sorted(auxbas)

\* lines 1320-1323: the auxiliary basis keywords appended for auxbas
aux_keywords(auxbas) ==
  IF "AutoAux" \in auxbas THEN <<S("AutoAux")>> ELSE sorted(auxbas)

(***************************************************************************)
(* InputGUI.update_widgets, lines 1186-1446: the ORCAInput built from the  *)
(* mapping v returned by get_values.  The statements run on the locals l   *)
(* of the method; l.error is the exception raised on the way ("" when none *)
(* is raised), and a statement that raises leaves the locals as they are.  *)
(***************************************************************************)
locals ==
  [error |-> "", inp |-> ORCAInput, ri |-> None, use_auxj |-> FALSE,
   use_auxjk |-> FALSE, use_auxc |-> FALSE, theory |-> None,
   use_numfreq |-> FALSE, use_numgrad |-> FALSE, task |-> None]

raise(l, exception) == [l EXCEPT !.error = exception]

\* lines 1188-1197: spin, the geometry line, UKS or UHF
set_geometry(v, l) ==
  [l EXCEPT !.inp =
     append_if(Truthy(v["unrestricted"]),
               setitem(l.inp, "*",
                       <<S("xyzfile"), v["charge"], coerced_spin(v),
                         S("init.xyz")>>),
               "!",
               IF v["theory"] \in {S("DFTB"), S("DFT")}
               THEN S("UKS") ELSE S("UHF"))]

\* lines 1204-1211
set_ri(v, l) ==
  IF /\ v["theory"] = S("DFT")
     /\ Truthy(v["ri"]) \/ Truthy(v["dlpno"])
     /\ ~IsStr(v["dft:family"])
  THEN raise(l, "TypeError")                                   \* line 1208
  ELSE [l EXCEPT !.ri = resolved_ri(v)]

\* lines 1213-1219
set_aux(v, l) ==
  [l EXCEPT
     !.use_auxj = l.ri \in {S("RI"), S("RIJONX"), S("RIJDX"), S("RIJCOSX")},
     !.use_auxjk = /\ l.ri \notin {S("RI"), S("RIJONX"), S("RIJDX"),
                                   S("RIJCOSX")}
                   /\ l.ri = S("RIJK")]

\* a variant of set_theory that reads the GGA functional for every family
set_theory_gga(v, l) ==
  IF v["theory"] = S("DFTB")
  THEN [l EXCEPT !.theory = v["dftb:hamiltonian"]]
  ELSE IF v["theory"] = S("DFT")
  THEN [l EXCEPT !.theory = v["dft:gga"]]
  ELSE [l EXCEPT !.theory = v["theory"]]

\* lines 1221-1225
set_theory(v, l) ==
  IF v["theory"] = S("DFTB")
  THEN [l EXCEPT !.theory = v["dftb:hamiltonian"]]
  ELSE IF v["theory"] = S("DFT")
  THEN IF "dft:" \o PyStr(v["dft:family"]) \notin Fields
       THEN raise(l, "KeyError")                               \* line 1225
       ELSE [l EXCEPT !.theory = v["dft:" \o PyStr(v["dft:family"])]]
  ELSE [l EXCEPT !.theory = v["theory"]]

\* the prefix of lines 1230-1235 ("" when the theory is left as it is)
prefix(v, l) ==
  IF Truthy(v["dlpno"]) THEN "DLPNO-"
  ELSE IF Truthy(l.ri) /\ l.ri \notin {None, S("NoRI")} THEN "RI-"
  ELSE ""

\* lines 1227-1235
set_prefix(v, l) ==
  IF \/ l.theory \in {S("MP2"), S("CCSD")}
     \/ /\ v["theory"] = S("DFT")
        /\ Contains("double-hybrid", v["dft:family"].s)
  THEN IF prefix(v, l) = "" THEN l
       ELSE IF ~IsStr(l.theory)
       THEN raise(l, "TypeError")                              \* 1231, 1234
       ELSE [l EXCEPT !.theory = S(prefix(v, l) \o l.theory.s),
                      !.use_auxc = TRUE]
  ELSE l

\* lines 1237-1258: the triples correction, use_numfreq and use_numgrad
set_numerical(v, l) ==
  [l EXCEPT
     !.theory = IF v["theory"] = S("CCSD") /\ Truthy(v["triples correction"])
                THEN S(l.theory.s \o "(T)")
                ELSE l.theory,
     !.use_numfreq =
        \/ Truthy(v["relativity"])
        \/ l.ri = S("RIJK")
        \/ v["theory"] = S("DFTB")
        \/ /\ v["theory"] = S("DFT")
           /\ \/ Contains("meta-gga", v["dft:family"].s)
              \/ Contains("double-hybrid", v["dft:family"].s),
     !.use_numgrad = v["theory"] = S("CCSD")]

\* lines 1260-1262
add_method(v, l) ==
  [l EXCEPT !.inp = append(append(append(l.inp, "!", l.theory),
                                  "!", v["dispersion"]),
                           "!", v["relativity"])]

\* lines 1263-1264
add_basis(v, l) ==
  IF v["theory"] = S("DFTB") THEN l
  ELSE IF "basis:" \o PyStr(v["basis:family"]) \notin Fields
  THEN raise(l, "KeyError")                                    \* line 1264
  ELSE [l EXCEPT !.inp = append(l.inp, "!",
                                v["basis:" \o PyStr(v["basis:family"])])]

\* the sets of lines 1286-1290 and 1309-1313
cc_jk ==
  {S(pre \o "cc-pV" \o PyStr(n) \o "Z") :
     pre \in {"", "aug-"}, n \in {S("T"), S("Q"), I(5)}}

cc_c ==
  {S(pre \o "cc-pV" \o PyStr(n) \o "Z") :
     pre \in {"", "aug-"}, n \in {S("D"), S("T"), S("Q"), I(5), I(6)}}

\* lines 1269-1280
auxj(v, l) ==
  IF ~l.use_auxj THEN {}
  ELSE IF v["basis:family"] = S("def2")
       THEN IF ~Truthy(v["relativity"]) THEN {"def2/J"} ELSE {"SARC/J"}
  ELSE {"AutoAux"}

\* lines 1282-1295
auxjk(v, l) ==
  IF ~l.use_auxjk THEN {}
  ELSE IF v["basis:family"] = S("def2") THEN {"def2/JK"}
  ELSE IF v["basis:family"] = S("cc")
       THEN IF v["basis:cc"] \in cc_jk THEN {v["basis:cc"].s \o "/JK"}
            ELSE {"AutoAux"}
  ELSE {"AutoAux"}

\* lines 1297-1318
auxc(v, l) ==
  IF ~l.use_auxc THEN {}
  ELSE IF v["basis:family"] = S("def2")
       THEN IF v["basis:def2"] \in {S("def2-SVP"), S("def2-TZVP"),
                                    S("def2-TZVPP"), S("def2-QZVPP")}
            THEN {v["basis:def2"].s \o "/C"}
            ELSE {"AutoAux"}
  ELSE IF v["basis:family"] = S("cc")
       THEN IF v["basis:cc"] \in cc_c THEN {v["basis:cc"].s \o "/C"}
            ELSE {"AutoAux"}
  ELSE {"AutoAux"}

\* lines 1266-1323: ri and the auxiliary basis sets
add_auxbas(v, l) ==
  IF l.ri = S("NoRI") THEN [l EXCEPT !.inp = append(l.inp, "!", l.ri)]
  ELSE [l EXCEPT !.inp =
          extend(append(l.inp, "!", l.ri), "!",
                 aux_keywords(auxj(v, l) \cup auxjk(v, l) \cup auxc(v, l)))]

\* lines 1325-1328
add_frozen_core(v, l) ==
  [l EXCEPT !.inp =
     append(append_if(v["theory"] \in {S("MP2"), S("CCSD")}, l.inp, "!",
                      v["frozen core"]),
            "!", v["uco"])]

\* a variant of replace_if that rewrites the task whatever the condition
replace_always(cond, task, old, new) ==
  IF Contains(old, task.s) THEN S(Replace(task.s, old, new))
  ELSE task

\* task.replace(old, new) if cond
replace_if(cond, task, old, new) ==
  IF cond /\ Contains(old, task.s) THEN S(Replace(task.s, old, new))
  ELSE task

\* lines 1330-1334
set_task(v, l) ==
  IF (l.use_numgrad \/ l.use_numfreq) /\ ~IsStr(v["task"])
  THEN raise(l, "TypeError")                                   \* 1331, 1333
  ELSE [l EXCEPT !.task =
          replace_if(l.use_numfreq,
                     replace_if(l.use_numgrad, v["task"], "Opt",
                                "Opt NumGrad"),
                     "Freq", "NumFreq")]

\* lines 1336-1337
add_task(v, l) ==
  [l EXCEPT !.inp = append_if(l.task # S("Energy"), l.inp, "!", l.task)]

\* a variant of add_maxcore that rounds the quotient to the nearest integer
add_maxcore_rounded(v, l) ==
  IF v["nprocs"] = I(0) THEN raise(l, "ZeroDivisionError")
  ELSE [l EXCEPT !.inp = append(l.inp, "maxcore",
                                I((2 * v["memory"].i + v["nprocs"].i)
                                    \div (2 * v["nprocs"].i)))]

\* line 1339
add_maxcore(v, l) ==
  IF v["nprocs"] = I(0) THEN raise(l, "ZeroDivisionError")
  ELSE [l EXCEPT !.inp = append(l.inp, "maxcore",
                                I(int_div(v["memory"].i, v["nprocs"].i)))]

\* lines 1342-1345
solvation_model(v) ==
  IF v["theory"] = S("DFTB") THEN "gbsa" ELSE Lower(v["solvation:model"].s)

\* a variant of add_solvent that writes water for every solvent
add_solvent_water(inp, model, solvent) ==
  IF model = "cpcm" THEN append(inp, "!", S("CPCM(water)"))
  ELSE append(append(inp, "cpcm", S("smd true")), "cpcm",
              S("smdsolvent \"water\""))

\* lines 1348-1352
add_solvent(inp, model, solvent) ==
  IF model = "cpcm" THEN append(inp, "!", S("CPCM(" \o solvent \o ")"))
  ELSE append(append(inp, "cpcm", S("smd true")), "cpcm",
              S("smdsolvent \"" \o solvent \o "\""))

\* lines 1341-1352
add_solvation(v, l) ==
  IF ~Truthy(v["solvation"]) THEN l
  ELSE IF v["theory"] # S("DFTB") /\ ~IsStr(v["solvation:model"])
  THEN raise(l, "AttributeError")                              \* line 1345
  ELSE IF "solvation:" \o solvation_model(v) \notin Fields
  THEN raise(l, "KeyError")                                    \* line 1346
  ELSE IF ~IsStr(v["solvation:" \o solvation_model(v)])
  THEN raise(l, "AttributeError")                              \* line 1346
  ELSE [l EXCEPT !.inp =
          add_solvent(l.inp, solvation_model(v),
                      Lower(v["solvation:" \o solvation_model(v)].s))]

\* lines 1354-1355
add_tight(v, l) ==
  [l EXCEPT !.inp = append_if(Truthy(v["geom:tight"]), l.inp, "!",
                              S("TightOpt"))]

\* lines 1357-1366
add_convergence(v, l) ==
  IF ~Truthy(v["numerical:quality"]) THEN l
  ELSE IF v["numerical:quality"] \notin {I(-1), I(1), I(2), I(3), I(4)}
  THEN raise(l, "KeyError")                                    \* line 1365
  ELSE [l EXCEPT !.inp =
          append(l.inp, "!",
                 CASE v["numerical:quality"] = I(-1) -> S("LooseSCF")
                   [] v["numerical:quality"] \in {I(1), I(2)} ->
                        S("TightSCF")
                   [] v["numerical:quality"] = I(3) -> S("VeryTightSCF")
                   [] v["numerical:quality"] = I(4) -> S("ExtremeSCF"))]

\* a variant of add_n_grid that leaves the grid of the tiers above 5 to ORCA
add_n_grid_default(inp, n_grid) ==
  IF n_grid > 5 THEN inp
  ELSE append(append(inp, "!", S("Grid" \o ToString(n_grid))), "!",
              S("FinalGrid" \o ToString(n_grid + 1)))

\* lines 1378-1382
add_n_grid(inp, n_grid) ==
  append(append(inp, "!", S("Grid" \o ToString(n_grid))), "!",
         IF n_grid > 6 THEN S("NoFinalGrid")
         ELSE S("FinalGrid" \o ToString(n_grid + 1)))

\* lines 1368-1382
add_grid(v, l) ==
  IF v["theory"] # S("DFT") THEN l
  ELSE IF v["numerical:quality"] = None
  THEN raise(l, "TypeError")                                   \* line 1369
  ELSE [l EXCEPT !.inp =
          add_n_grid(l.inp,
                     v["numerical:quality"].i + 3
                       + (IF v["excited states:method"] = S("TD-DFT")
                          THEN 1 ELSE 0))]

\* lines 1395-1396
add_n_gridx(inp, n_gridx) ==
  append_if(n_gridx > 3, inp, "!", S("GridX" \o ToString(Min(n_gridx, 9))))

\* lines 1383-1396
add_gridx(v, l) ==
  IF l.ri # S("RIJCOSX") THEN l
  ELSE IF v["numerical:quality"] = None
  THEN raise(l, "TypeError")                                   \* line 1384
  ELSE IF ~IsStr(l.task)
  THEN raise(l, "TypeError")                                   \* line 1385
  ELSE [l EXCEPT !.inp =
          add_n_gridx(l.inp,
                      v["numerical:quality"].i + 3
                        + (IF /\ Contains("Opt", l.task.s)
                              /\ Contains("DLPNO-MP2", l.theory.s)
                           THEN 3
                           ELSE IF v["excited states:method"] = S("TD-DFT")
                                THEN 1 ELSE 0))]

\* lines 1402-1405
add_mos(v, inp) ==
  IF Truthy(v["output:mos"]) /\ v["output:level"] # S("LargePrint")
  THEN append(inp, "!", S("PrintMOs"))
  ELSE IF ~Truthy(v["output:mos"]) /\ v["output:level"] = S("LargePrint")
       THEN append(inp, "!", S("NoPrintMOs"))
  ELSE inp

\* lines 1398-1410: the output keywords and the comment
add_output(v, l) ==
  [l EXCEPT !.inp =
     append_if(Truthy(v["short description"]),
       append_if(Truthy(v["nbo"]),
         add_mos(v,
           append_if(Truthy(v["output:basis"])
                       /\ v["output:level"] # S("LargePrint"),
             append_if(v["output:level"] # S("SmallPrint"), l.inp, "!",
                       v["output:level"]),
             "!", S("PrintBasis"))),
         "!", S("NBO")),
       "#", S(PyStr(v["short description"])))]

\* lines 1412-1417
add_maxiter(v, l) ==
  [l EXCEPT !.inp =
     append(
       append_if(Truthy(v["geom:maxiter"]) /\ v["geom:maxiter"] # S("Auto"),
         append_if(Truthy(v["scf:maxiter"]) /\ v["scf:maxiter"] # S("Auto"),
                   l.inp, "scf", S("maxiter " \o PyStr(v["scf:maxiter"]))),
         "geom", S("maxiter " \o PyStr(v["geom:maxiter"]))),
       "geom", v["geom:step"])]

\* lines 1418-1422
add_trust(v, l) ==
  IF ~Truthy(v["geom:trust"]) THEN l
  ELSE IF /\ v["geom:step"] # S("step qn")
          /\ v["geom:update_trust"] \notin {B(TRUE), B(FALSE)}
  THEN raise(l, "KeyError")                                    \* line 1421
  ELSE [l EXCEPT !.inp =
          append(l.inp, "geom",
                 S("trust " \o
                   FloatStr((0 - v["geom:trust"].f)
                              * (IF v["geom:step"] # S("step qn")
                                 THEN IF v["geom:update_trust"].b
                                      THEN -1 ELSE 1
                                 ELSE 1))))]

\* lines 1424-1429
add_hessian(v, l) ==
  IF ~Truthy(v["initial hessian"]) THEN l
  ELSE [l EXCEPT !.inp =
          append_if(v["initial hessian"] = S("calc_hess true")
                      /\ l.use_numfreq,
            append_if(v["initial hessian"] = S("inhess read"),
                      append(l.inp, "geom", v["initial hessian"]),
                      "geom", S("inhessname \"freq.hess\"")),
            "geom", S("numhess true"))]

\* lines 1431-1437
add_freq(v, l) ==
  [l EXCEPT !.inp =
     append_if(v["nprocs"].i > 1,
       append_if(Truthy(v["freq:scaling"]) /\ v["freq:scaling"] # F(100),
         append_if(Truthy(v["freq:restart"]), l.inp, "freq",
                   S("restart true")),
         "freq", S("scalfreq " \o PyStr(v["freq:scaling"]))),
       "pal", S("nprocs " \o PyStr(v["nprocs"])))]

\* lines 1439-1446
add_tddft(v, l) ==
  IF ~(Truthy(v["excited states"])
         /\ v["excited states:method"] = S("TD-DFT"))
  THEN l
  ELSE [l EXCEPT !.inp =
          append_if(Truthy(v["tddft:nto"]),
            append_if(~Truthy(v["tddft:tda"]),
              append(append(l.inp, "tddft",
                            S("nroots " \o PyStr(v["tddft:nroots"]))),
                     "tddft", S("maxdim " \o PyStr(v["tddft:maxdim"]))),
              "tddft", S("tda false")),
            "tddft", S("donto true"))]

\* the statements of lines 1188-1446 in their order
Statements == 24

statement(n, v, l) ==
  CASE n = 1 -> set_geometry(v, l)
    [] n = 2 -> set_ri(v, l)
    [] n = 3 -> set_aux(v, l)
    [] n = 4 -> set_theory(v, l)
    [] n = 5 -> set_prefix(v, l)
    [] n = 6 -> set_numerical(v, l)
    [] n = 7 -> add_method(v, l)
    [] n = 8 -> add_basis(v, l)
    [] n = 9 -> add_auxbas(v, l)
    [] n = 10 -> add_frozen_core(v, l)
    [] n = 11 -> set_task(v, l)
    [] n = 12 -> add_task(v, l)
    [] n = 13 -> add_maxcore(v, l)
    [] n = 14 -> add_solvation(v, l)
    [] n = 15 -> add_tight(v, l)
    [] n = 16 -> add_convergence(v, l)
    [] n = 17 -> add_grid(v, l)
    [] n = 18 -> add_gridx(v, l)
    [] n = 19 -> add_output(v, l)
    [] n = 20 -> add_maxiter(v, l)
    [] n = 21 -> add_trust(v, l)
    [] n = 22 -> add_hessian(v, l)
    [] n = 23 -> add_freq(v, l)
    [] n = 24 -> add_tddft(v, l)

RECURSIVE execute(_, _, _)
\* the statements from the n-th on, up to the first that raises
execute(n, v, l) ==
  IF n > Statements \/ l.error # "" THEN l
  ELSE execute(n + 1, v, statement(n, v, l))

build(v) == execute(1, v, locals)
(***************************************************************************)
(* The application.                                                        *)
(***************************************************************************)
VARIABLES
  pc,        \* "start", "idle" (in mainloop), "clear", "closed" or "crashed"
  variable,  \* Questionnaire.variable: the content of each Tcl variable
  visible,   \* fields[name]["visible"]
  widget,    \* the widget of the field is gridded
  label,     \* the label of the field is gridded
  v,         \* the mapping the last get_values returned to the generator
  inp,       \* the ORCAInput of the last run of InputGUI.update_widgets
  text,      \* the content of InputGUI.text, as lines
  error,     \* the exception of the last run of InputGUI.update_widgets
             \* or of the start-up ("" when it raised none)
  idx,       \* under Clear, the position of init_widgets in its loop
  file,      \* the state file ~/.orcinus_questions.pickle; of the kind
             \* "unnamed" for a questionnaire whose state_filename is None
  snapshot,  \* history: the Tcl variables at the last store_widgets
  rewritten, \* history: under Clear, a set() of the loop of init_widgets
             \* has changed its variable
  desc,      \* a field descriptor handed to Questionnaire.create_widgets
  accessed   \* history: the keys of an ORCAInput in the order in which
             \* they were first read or assigned

vars == <<pc, variable, visible, widget, label, v, inp, text, error, idx,
          file, snapshot, rewritten, desc, accessed>>

\* what the events of the application leave alone
aside == <<desc, accessed>>

questions == [visible |-> visible, widget |-> widget, label |-> label]

\* lines 1448-1449: the editor takes the text that generate returns
inserted(got, out) ==
  [q |-> got.q, error |-> "", v |-> got.values, inp |-> out.inp,
   text |-> out.text]

\* lines 1186-1449 on the mapping that get_values returned; l is the locals
\* after the statements
generated(st, got, l) ==
  IF l.error = "" THEN inserted(got, generate(l.inp))
  ELSE [q |-> got.q, error |-> l.error, v |-> got.values, inp |-> l.inp,
        text |-> st.text]

answers(st, got) ==
  IF got.raised
  THEN [q |-> got.q, error |-> "KeyError", v |-> st.v, inp |-> st.inp,
        text |-> st.text]
  ELSE generated(st, got, build(got.values))

\* InputGUI.update_widgets (the write trace of every variable), run on the
\* state st of the locals and the editor: the questionnaire afterwards, the
\* exception raised, the locals v and inp, and the editor's text
InputGUI_update_widgets(q, var, st) == answers(st, get_values(q, var))

\* the locals and the editor, as the last run left them
last == [v |-> v, inp |-> inp, text |-> text]

\* init_values that leave the state file aside
init_values_default(state_file, ignore_state) ==
  [name \in Fields |-> default[name]]

\* init_values that take the state file whatever ignore_state says
init_values_stored(state_file, ignore_state) ==
  [name \in Fields |->
     IF state_file.kind = "state" /\ name \in DOMAIN state_file.state
     THEN state_file.state[name]
     ELSE default[name]]

\* init_values of init_widgets (lines 84-95)
init_values(state_file, ignore_state) ==
  [name \in Fields |->
     IF /\ ~ignore_state
        /\ state_file.kind = "state"
        /\ name \in DOMAIN state_file.state
     THEN state_file.state[name]
     ELSE default[name]]

\* the loop of init_widgets (lines 97-101) when no trace is registered
set_all(values) == [name \in Fields |-> tk_set(type[name], values[name])]

\* line 103
updated(q, var) ==
  [raised |-> FALSE, error |-> "", variable |-> var,
   q |-> update_widgets(q, var)]

\* Questionnaire.init_widgets before any trace is registered (the call of
\* create_widgets, line 275): the Tcl variables and the questionnaire
\* afterwards; raised when os.path.join is handed the state_filename None
\* (line 87) and when pickle.load fails (line 94)
init_widgets(q, var, state_file) ==
  IF state_file.kind = "unnamed"
  THEN [raised |-> TRUE, error |-> "TypeError", variable |-> var, q |-> q]
  ELSE IF state_file.kind = "corrupt"
  THEN [raised |-> TRUE, error |-> "UnpicklingError", variable |-> var,
        q |-> q]
  ELSE updated(q, set_all(init_values(state_file, FALSE)))

\* Questionnaire.store_widgets: the state pickled, if the questionnaire has
\* a state_filename (line 110)
store_widgets(var, state_file) ==
  IF state_file.kind = "unnamed" THEN state_file
  ELSE [kind |-> "state",
        state |-> [name \in Fields |-> get_or_default(var, name)]]

\* what a run of InputGUI.update_widgets leaves: the Tcl variables var, the
\* questionnaire q, and the locals and the editor of run
Ran(var, q, run) ==
  /\ variable' = var
  /\ visible' = q.visible
  /\ widget' = q.widget
  /\ label' = q.label
  /\ v' = run.v
  /\ inp' = run.inp
  /\ text' = run.text
  /\ error' = run.error

\* line 1181: outside the mainloop, an exception ends the program
Started(var, run) ==
  /\ Ran(var, run.q, run)
  /\ pc' = IF run.error = "" THEN "idle" ELSE "crashed"
  /\ UNCHANGED <<idx, file, snapshot, rewritten, aside>>

\* lines 1178-1181 after Questionnaire.__init__
Created(init) ==
  Started(init.variable,
          IF init.raised
          THEN [q |-> init.q, error |-> init.error,
                v |-> [name \in Fields |-> None], inp |-> ORCAInput,
                text |-> <<>>]
          ELSE InputGUI_update_widgets(
                 init.q, init.variable,
                 [v |-> [name \in Fields |-> None], inp |-> ORCAInput,
                  text |-> <<>>]))

\* main(): InputGUI.__init__, i.e. Questionnaire.create_widgets with
\* init_widgets, then the traces and the first InputGUI.update_widgets
Start == Created(init_widgets(created, fresh, file))

Launch == pc = "start" /\ Start

\* the next run of the program after the window was closed
Relaunch == pc = "closed" /\ Start

\* the write trace in the mainloop: Tk reports an exception and goes on
Traced(var, run) ==
  /\ Ran(var, run.q, run)
  /\ UNCHANGED <<pc, idx, file, snapshot, rewritten, aside>>

Written(var) == Traced(var, InputGUI_update_widgets(questions, var, last))

\* the user edits the widget of a field, which is on the screen: the Tcl
\* variable is written and its write trace runs
Write(name, value) ==
  /\ pc = "idle"
  /\ widget[name]
  /\ variable[name] # value
  /\ Written([variable EXCEPT ![name] = value])

\* InputGUI.clear (the Clear button): Questionnaire.init_widgets with
\* ignore_state enters its loop over init_values
clear ==
  /\ pc = "idle"
  /\ pc' = "clear"
  /\ idx' = 1
  /\ UNCHANGED <<variable, visible, widget, label, v, inp, text, error,
                 file, snapshot, rewritten, aside>>

\* the end of a round of the loop under Clear: after the last field,
\* Questionnaire.update_widgets (line 103) and the handler returns
Rounded(var, run) ==
  /\ Ran(var,
         IF idx = Len(FieldNames) THEN update_widgets(run.q, var)
         ELSE run.q,
         run)
  /\ idx' = IF idx = Len(FieldNames) THEN 0 ELSE idx + 1
  /\ pc' = IF idx = Len(FieldNames) THEN "idle" ELSE "clear"
  /\ rewritten' = (idx # Len(FieldNames) /\ (rewritten \/ var # variable))
  /\ UNCHANGED <<file, snapshot, aside>>

Cleared(var) == Rounded(var, InputGUI_update_widgets(questions, var, last))

\* one round of the loop of init_widgets (lines 97-101) under Clear: the
\* set() of the field at idx and the write trace it runs, whose exception Tk
\* reports and drops
clear_set ==
  /\ pc = "clear"
  /\ Cleared([variable EXCEPT
                ![FieldNames[idx]] =
                   tk_set(type[FieldNames[idx]],
                          init_values(file, TRUE)[FieldNames[idx]])])

\* on_window_close: store_widgets, then the window is destroyed
on_window_close ==
  /\ pc = "idle"
  /\ file' = store_widgets(variable, file)
  /\ snapshot' = variable
  /\ pc' = "closed"
  /\ UNCHANGED <<variable, visible, widget, label, v, inp, text, error,
                 idx, rewritten, aside>>

(***************************************************************************)
(* The values the user enters: for the fields that are edited, a few       *)
(* values of the field's domain and, where the widget takes typed text, a  *)
(* text outside it (Bad is a text that IntVar.get() cannot read).          *)
(***************************************************************************)
MaxCharge == 1
MaxSpin == 2

Strings(set) == {S(s) : s \in set}

MainGroup ==
  [name \in {"theory", "charge", "spin", "unrestricted"} |->
     CASE name = "theory" -> Strings({"MM", "HF", "DFTB", "DFT"})
       [] name = "charge" -> {I(n) : n \in (0 - MaxCharge)..MaxCharge}
       [] name = "spin" -> {I(n) : n \in 0..MaxSpin} \cup {Bad}
       [] name = "unrestricted" -> {B(FALSE), B(TRUE)}]

AuxGroup ==
  [name \in {"theory", "basis:family", "basis:def2", "basis:cc", "ri",
             "dlpno", "ri:hf", "relativity"} |->
     CASE name = "theory" -> Strings({"HF", "DFTB", "DFT", "MP2"})
       [] name = "basis:family" -> Strings({"def2", "cc", "Pople", "zzz"})
       [] name = "basis:def2" -> Strings({"DZ(P)", "TZP"})
       [] name = "basis:cc" -> Strings({"DZP", "TZP"})
       [] name \in {"ri", "dlpno"} -> {B(FALSE), B(TRUE)}
       [] name = "ri:hf" -> Strings({"RIJK", "RIJCOSX"})
       [] name = "relativity" -> Strings({"None", "DKH"})]

PersistGroup ==
  [name \in {"theory", "spin", "unrestricted"} |->
     CASE name = "theory" -> Strings({"MM", "HF", "DFT"})
       [] name = "spin" -> {I(n) : n \in 0..MaxSpin} \cup {Bad}
       [] name = "unrestricted" -> {B(FALSE), B(TRUE)}]

QualityGroup ==
  [name \in {"theory", "numerical:quality", "dft:family", "excited states",
             "ri", "ri:hf"} |->
     CASE name = "theory" -> Strings({"HF", "DFT"})
       [] name = "numerical:quality" ->
            Strings({"Poor", "Fair", "Good", "Very Good", "Excellent",
                     "Extreme", "zzz"})
       [] name = "dft:family" -> Strings({"GGA", "Hybrid"})
       [] name \in {"excited states", "ri"} -> {B(FALSE), B(TRUE)}
       [] name = "ri:hf" -> Strings({"RIJK", "RIJCOSX"})]

MethodGroup ==
  [name \in {"theory", "dft:family", "task", "dlpno", "triples correction",
             "relativity", "ri:hf"} |->
     CASE name = "theory" -> Strings({"MM", "HF", "DFTB", "DFT", "CCSD"})
       [] name = "dft:family" -> Range(dft_families)
       [] name = "task" -> Strings({"Energy", "Opt+Freq", "OptTS"})
       [] name \in {"dlpno", "triples correction"} -> {B(FALSE), B(TRUE)}
       [] name = "relativity" -> Strings({"None", "DKH"})
       [] name = "ri:hf" -> Strings({"RIJK", "RIJCOSX"})]

Init ==
  /\ pc = "start"
  /\ variable = fresh
  /\ visible = created.visible
  /\ widget = created.widget
  /\ label = created.label
  /\ v = [name \in Fields |-> None]
  /\ inp = ORCAInput
  /\ text = <<>>
  /\ error = ""
  /\ idx = 0
  /\ file \in {[kind |-> "missing"], [kind |-> "corrupt"]}
  /\ snapshot = fresh
  /\ rewritten = FALSE
  /\ desc = <<>>
  /\ accessed = <<>>

Edit(group) ==
  \E name \in DOMAIN group : \E value \in group[name] : Write(name, value)

\* a session on the basic information: the edits, Clear and the close
EditMain == Edit(MainGroup)

Next == Launch \/ EditMain \/ clear \/ clear_set \/ on_window_close

Spec == Init /\ [][Next]_vars

\* a session on the level of theory and the acceleration
EditAux == Edit(AuxGroup)

NextAux == Launch \/ EditAux \/ on_window_close

SpecAux == Init /\ [][NextAux]_vars

\* sessions that are closed and started again
EditPersist == Edit(PersistGroup)

NextPersist == Launch \/ EditPersist \/ on_window_close \/ Relaunch

SpecPersist == Init /\ [][NextPersist]_vars

\* a session on the numerical quality and the answers it combines with
EditQuality == Edit(QualityGroup)

NextQuality == Launch \/ EditQuality \/ on_window_close

SpecQuality == Init /\ [][NextQuality]_vars

SolventGroup ==
  [name \in {"theory", "solvation", "solvation:model", "solvation:cpcm",
             "solvation:smd", "solvation:gbsa"} |->
     CASE name = "theory" -> Strings({"HF", "DFTB", "DFT"})
       [] name = "solvation" -> {B(FALSE), B(TRUE)}
       [] name = "solvation:model" -> Strings({"CPCM", "SMD"})
       [] name = "solvation:cpcm" -> Strings({"Water", "Dimethyl sulfoxide"})
       [] name = "solvation:smd" -> Strings({"Water", "Nitromethane"})
       [] name = "solvation:gbsa" -> Strings({"Water", "Diethyl ether"})]

\* every total memory and every number of processes of the two spinboxes
MemoryGroup ==
  [name \in {"memory", "nprocs"} |-> Range(fields[name].values)]

\* a session on the method, its family and the task
NextMethod == Launch \/ Edit(MethodGroup) \/ on_window_close

SpecMethod == Init /\ [][NextMethod]_vars

\* a questionnaire with the state file of the application, which is
\* missing, or with no state_filename
InitFilename ==
  /\ pc = "start"
  /\ variable = fresh
  /\ visible = created.visible
  /\ widget = created.widget
  /\ label = created.label
  /\ v = [name \in Fields |-> None]
  /\ inp = ORCAInput
  /\ text = <<>>
  /\ error = ""
  /\ idx = 0
  /\ file \in {[kind |-> "missing"], [kind |-> "unnamed"]}
  /\ snapshot = fresh
  /\ rewritten = FALSE
  /\ desc = <<>>
  /\ accessed = <<>>

SpecFilename == InitFilename /\ [][NextPersist]_vars

\* sessions that are closed and started again, in which the user leaves the
\* defaults (the theory DFT, a restricted calculation) and only Clear
\* brings them back
NextReset ==
  \/ Launch
  \/ Edit([name \in {"theory", "unrestricted"} |->
             IF name = "theory" THEN Strings({"HF", "CCSD"}) ELSE {B(TRUE)}])
  \/ clear
  \/ clear_set
  \/ on_window_close
  \/ Relaunch

SpecReset == Init /\ [][NextReset]_vars

\* a session on the solvation
NextSolvent == Launch \/ Edit(SolventGroup) \/ on_window_close

SpecSolvent == Init /\ [][NextSolvent]_vars

\* a session on the resources
NextMemory == Launch \/ Edit(MemoryGroup) \/ on_window_close

SpecMemory == Init /\ [][NextMemory]_vars

(***************************************************************************)
(* Loading one field descriptor: create_widgets on a dictionary with a     *)
(* single field.  The descriptors are drawn from the shapes the inference  *)
(* of lines 195-219 distinguishes.                                         *)
(***************************************************************************)
Descriptors ==
  {t @@ d @@ values :
     t \in {<<>>} \cup
            {[type |-> x] : x \in {"int", "bool", "str", "float", "complex"}},
     d \in {<<>>} \cup
            {[default |-> x] : x \in {None, I(1), B(TRUE), S("DKH"), F(150)}},
     values \in {<<>>} \cup
            {[values |-> x] :
               x \in {<<>>, <<None>>, <<None, S("DKH"), S("ZORA")>>,
                      <<S("HF"), S("DFT")>>, <<I(1), I(2)>>,
                      <<F(95), F(100)>>, <<B(FALSE), None>>}}}

\* the variables of the window, which does not exist in these sessions
window == <<variable, visible, widget, label, v, text, idx, file, snapshot,
            rewritten>>

NoWindow ==
  /\ variable = fresh
  /\ visible = created.visible
  /\ widget = created.widget
  /\ label = created.label
  /\ v = [name \in Fields |-> None]
  /\ text = <<>>
  /\ idx = 0
  /\ file = [kind |-> "missing"]
  /\ snapshot = fresh
  /\ rewritten = FALSE

InitSchema ==
  /\ pc = "schema"
  /\ desc \in Descriptors
  /\ error = ""
  /\ inp = ORCAInput
  /\ accessed = <<>>
  /\ NoWindow

create_widgets ==
  /\ pc = "schema"
  /\ pc' = IF create_widget(desc).error = "" THEN "loaded" ELSE "failed"
  /\ desc' = create_widget(desc).desc
  /\ error' = create_widget(desc).error
  /\ UNCHANGED <<inp, accessed, window>>

NextSchema == create_widgets

SpecSchema == InitSchema /\ [][NextSchema]_vars

(***************************************************************************)
(* An ORCAInput on its own: a script reads, appends to and assigns         *)
(* sections, then calls generate twice.                                    *)
(***************************************************************************)
MaxSize == 4

Keys == {"#", "!", "*", "maxcore", "scf", "geom"}

RECURSIVE entries(_, _)
\* the number of entries of the sections from the position `from` on
entries(m, from) ==
  IF from > Len(m.keys) THEN 0
  ELSE Len(m.at[m.keys[from]]) + entries(m, from + 1)

\* the keys in the order of their first access
first(seen, key) == IF key \in Range(seen) THEN seen ELSE Append(seen, key)

InitDoc ==
  /\ pc = "script"
  /\ inp = ORCAInput
  /\ accessed = <<>>
  /\ error = ""
  /\ desc = <<>>
  /\ NoWindow

\* one statement of the script on the section `key`, leaving the mapping m
Scripted(key, m) ==
  /\ pc = "script"
  /\ Len(m.keys) + entries(m, 1) <= MaxSize
  /\ inp' = m
  /\ accessed' = first(accessed, key)
  /\ UNCHANGED <<pc, error, desc, window>>

\* inp[key]
read == \E key \in Keys : Scripted(key, getitem(inp, key))

\* inp[key].append(item)
add ==
  \E key \in Keys : \E item \in {None, S("x")} :
    Scripted(key, append(inp, key, item))

\* inp[key] = [] and inp[key] = [item]
assign ==
  \E key \in Keys : \E value \in {<<>>, <<None>>, <<S("x")>>} :
    Scripted(key, setitem(inp, key, value))

\* del inp[key]; the next access of the key is a first access again
remove ==
  \E key \in Range(inp.keys) :
    /\ pc = "script"
    /\ inp' = delitem(inp, key)
    /\ accessed' = SelectSeq(accessed, LAMBDA k : k # key)
    /\ UNCHANGED <<pc, error, desc, window>>

Generated(out) ==
  /\ inp' = out.inp
  /\ text' = out.text
  /\ accessed' = first(first(first(first(accessed, "#"), "!"), "maxcore"), "*")
  /\ UNCHANGED <<error, desc, variable, visible, widget, label, v, idx, file,
                 snapshot, rewritten>>

\* text = inp.generate()
serialize ==
  /\ pc = "script"
  /\ pc' = "generated"
  /\ Generated(generate(inp))

\* the same call once more
serialize_again ==
  /\ pc = "generated"
  /\ pc' = "generated again"
  /\ Generated(generate(inp))

NextDoc == read \/ add \/ assign \/ remove \/ serialize \/ serialize_again

SpecDoc == InitDoc /\ [][NextDoc]_vars

(***************************************************************************)
(* What the properties speak of: the mapping v that get_values returned to *)
(* the last run of the generator, the document inp it built, and the       *)
(* lines of the editor's text.                                             *)
(***************************************************************************)
\* the application is in its main loop (between events, or within Clear)
Running == pc \in {"idle", "clear"}

\* the editor shows the document serialized by the last event
Serialized == Running /\ error = ""

LineWith(head) ==
  text[CHOOSE p \in DOMAIN text : StartsWith(text[p], head)]

KeywordLine == LineWith("! ")

GeometryLine == LineWith("*")

\* the positions at which the token tok stands in a line of tokens
\* separated by single spaces
Occurrences(tok, line) ==
  {p \in 1..(Len(line) - Len(tok)) :
     SubSeq(line \o " ", p, p + Len(tok) + 1) = " " \o tok \o " "}

HasToken(tok) == Occurrences(tok, KeywordLine) # {}

\* a token that names an auxiliary basis set: <basis>/J, /JK or /C
AuxToken ==
  \E suffix \in {"/J ", "/JK ", "/C "} : Contains(suffix, KeywordLine \o " ")

(***************************************************************************)
(* C1.  Totality of the generator: whatever the answers, drawn from the    *)
(* declared domains (theory = "MM" and "DFTB" included),                   *)
(* InputGUI.update_widgets builds and serializes a document without        *)
(* raising.  The only exception the application may then ever have met is  *)
(* that of reading the state file.                                         *)
(***************************************************************************)
C1_Totality == error \in {"", "UnpicklingError"}

(***************************************************************************)
(* C2.  Hidden-field nulling: in the mapping returned by get_values, every *)
(* field whose visibility flag is false after the visibility rules ran on  *)
(* the current store is None, whatever raw value is stored for it.         *)
(***************************************************************************)
C2_HiddenFieldNulling ==
  Running => \A name \in Fields : ~visible[name] => v[name] = None

\* spin is hidden while its variable holds a value the user had entered,
\* and so is a field that has a translation table
C2_Witness ==
  /\ pc = "idle"
  /\ ~visible["spin"] /\ variable["spin"] = I(2)
  /\ ~visible["uco"] /\ IsDict(fields["uco"])

(***************************************************************************)
(* C3.  Translation lookups fail safe: for every visible field whose       *)
(* domain is a mapping, get_values returns the translation of the stored   *)
(* value when it is a key of the mapping and otherwise the translation of  *)
(* the field's default; no KeyError reaches the caller.                    *)
(***************************************************************************)
C3_TranslationFailSafe ==
  Running =>
    /\ error # "KeyError"
    /\ \A name \in Fields :
       IsDict(fields[name]) /\ visible[name] =>
         LET raw == get_or_default(variable, name)
             key == IF raw = S("None") THEN None ELSE raw
             keys == fields[name].values
             at(k) == fields[name].map[CHOOSE p \in DOMAIN keys : keys[p] = k]
             mapped == \E p \in DOMAIN keys : keys[p] = key
             expected == IF mapped THEN at(key) ELSE at(default[name])
         IN  v[name] = (IF expected = S("None") THEN None ELSE expected)

\* the basis family holds a typed text that is no key of its mapping
C3_Witness ==
  /\ pc = "idle"
  /\ visible["basis:family"]
  /\ variable["basis:family"] = S("zzz")
  /\ v["basis:family"] = S("def2")

(***************************************************************************)
(* C4.  Persistence failure degrades to defaults: when init_widgets runs   *)
(* at startup and the state file is missing or corrupt, initialization     *)
(* completes without raising and every variable holds its schema default.  *)
(***************************************************************************)
C4_PersistenceFailureDegrades ==
  [][pc = "start" /\ file.kind \in {"missing", "corrupt"} =>
       /\ pc' = "idle"
       /\ \A name \in Fields :
            variable'[name] = tk_set(type[name], default[name])]_vars

(***************************************************************************)
(* C5.  Round-trip persistence, as stated: store_widgets followed by       *)
(* init_widgets leaves every integer, boolean and string field with the    *)
(* raw value it had when store_widgets was called.                         *)
(***************************************************************************)
Exact == {name \in Fields : type[name] \in {"int", "bool", "str"}}

Restarted == pc = "closed" /\ pc' # "closed"

C5_RoundTripAsStated ==
  [][Restarted => \A name \in Exact : variable'[name] = snapshot[name]]_vars

(***************************************************************************)
(* C5, amended.  store_widgets followed by init_widgets leaves every       *)
(* boolean and string field, and every integer field whose variable could  *)
(* be read when store_widgets was called, with the raw value it had; an    *)
(* integer field whose variable could not be read is left with its schema  *)
(* default.                                                                *)
(***************************************************************************)
C5_RoundTrip ==
  [][Restarted =>
       \A name \in Exact :
         variable'[name] = IF snapshot[name] = Bad THEN default[name]
                           ELSE snapshot[name]]_vars

\* a session that was started again from answers the user had changed
C5_Witness ==
  /\ pc = "idle"
  /\ file.kind = "state"
  /\ variable = snapshot
  /\ variable["theory"] = S("HF")
  /\ variable["unrestricted"] = B(TRUE)
  /\ variable["spin"] = I(2)

(***************************************************************************)
(* C6.  Dominant AutoAux: in every generated document, if a fitting type   *)
(* that is required (Coulomb /J, exchange /JK, correlation /C) has no      *)
(* exact auxiliary basis set for the basis chosen, the keyword line holds  *)
(* the token AutoAux exactly once and no other auxiliary-basis token.      *)
(***************************************************************************)
NeedsJ == \E tok \in {"RI", "RIJONX", "RIJDX", "RIJCOSX"} : HasToken(tok)

NeedsJK == HasToken("RIJK")

NeedsC ==
  Contains(" DLPNO-", KeywordLine) \/ Contains(" RI-", KeywordLine)

ExactJ == v["basis:family"] = S("def2")

ExactJK ==
  \/ v["basis:family"] = S("def2")
  \/ /\ v["basis:family"] = S("cc")
     /\ v["basis:cc"] \in
          Strings({"cc-pVTZ", "cc-pVQZ", "cc-pV5Z", "aug-cc-pVTZ",
                   "aug-cc-pVQZ", "aug-cc-pV5Z"})

ExactC ==
  \/ /\ v["basis:family"] = S("def2")
     /\ v["basis:def2"] \in
          Strings({"def2-SVP", "def2-TZVP", "def2-TZVPP", "def2-QZVPP"})
  \/ /\ v["basis:family"] = S("cc")
     /\ v["basis:cc"] \in
          Strings({"cc-pVDZ", "cc-pVTZ", "cc-pVQZ", "cc-pV5Z", "cc-pV6Z",
                   "aug-cc-pVDZ", "aug-cc-pVTZ", "aug-cc-pVQZ",
                   "aug-cc-pV5Z", "aug-cc-pV6Z"})

NoExactEntry ==
  \/ NeedsJ /\ ~ExactJ
  \/ NeedsJK /\ ~ExactJK
  \/ NeedsC /\ ~ExactC

C6_DominantAutoAux ==
  Serialized /\ NoExactEntry =>
    /\ Cardinality(Occurrences("AutoAux", KeywordLine)) = 1
    /\ ~AuxToken

\* def2-SV(P): /J has an exact entry and /C has none, AutoAux stands for
\* both
C6_Witness ==
  /\ Serialized
  /\ v["basis:def2"] = S("def2-SV(P)")
  /\ NeedsJ /\ ExactJ
  /\ NeedsC /\ ~ExactC
  /\ HasToken("AutoAux")

(***************************************************************************)
(* C7.  No-RI marker, as stated: whenever the translated values of "ri"    *)
(* and of "dlpno" are both falsy, the keyword line holds the NoRI marker   *)
(* and no auxiliary-basis token.                                           *)
(***************************************************************************)
RIOff ==
  ~Truthy(v["ri"]) /\ ~Truthy(v["dlpno"])

NoRIMarked == HasToken("NoRI") /\ ~HasToken("AutoAux") /\ ~AuxToken

C7_NoRIMarkerAsStated == Serialized /\ RIOff => NoRIMarked

(***************************************************************************)
(* C7, amended.  Whenever the translated values of "ri" and of "dlpno" are *)
(* both falsy and the theory is not "DFTB", the keyword line of the        *)
(* generated document holds the NoRI marker and no auxiliary-basis token.  *)
(***************************************************************************)
C7_NoRIMarker ==
  Serialized /\ RIOff /\ v["theory"] # S("DFTB") => NoRIMarked

\* Hartree-Fock with the resolution of identity unchecked
C7_Witness ==
  /\ Serialized
  /\ v["theory"] = S("HF")
  /\ v["ri"] = B(FALSE)
  /\ HasToken("NoRI")

(***************************************************************************)
(* C8.  Spin coercion and geometry line, as stated: whenever the           *)
(* multiplicity resolves to a falsy value, the geometry section is         *)
(* xyzfile, charge, 1, init.xyz, and for charge = 0 the serialized         *)
(* geometry line reads "*xyzfile 0 1 init.xyz".                            *)
(***************************************************************************)
SpinFalsy == ~Truthy(v["spin"])

GeometryCoerced ==
  inp.at["*"]
    = <<S("xyzfile"), v["charge"], I(1), S("init.xyz")>>

C8_GeometryLineAsStated ==
  Running /\ SpinFalsy =>
    /\ GeometryCoerced
    /\ error = "" /\ v["charge"] = I(0) =>
         GeometryLine = "*xyzfile 0 1 init.xyz"

(***************************************************************************)
(* C8, amended.  Whenever the multiplicity resolves to a falsy value, the  *)
(* geometry section is xyzfile, charge, 1, init.xyz, and for charge = 0    *)
(* the serialized geometry line reads "* xyzfile 0 1 init.xyz".            *)
(***************************************************************************)
C8_GeometryLine ==
  Running /\ SpinFalsy =>
    /\ GeometryCoerced
    /\ error = "" /\ v["charge"] = I(0) =>
         GeometryLine = "* xyzfile 0 1 init.xyz"

\* the multiplicity is shown and the user has entered 0
C8_Witness ==
  /\ Serialized
  /\ visible["spin"] /\ variable["spin"] = I(0)
  /\ variable["charge"] = I(0)
  /\ GeometryLine = "* xyzfile 0 1 init.xyz"

(***************************************************************************)
(* C9.  Visibility purity: Questionnaire.update_widgets run twice in a row *)
(* on an unchanged store leaves, after the second run, the visibility flag *)
(* and the show/hide state of every field as after the first run.          *)
(***************************************************************************)
C9_VisibilityPurity ==
  \A q \in {questions, created} :
    LET once == update_widgets(q, variable)
    IN  update_widgets(once, variable) = once

\* the rules have shown one field and hidden another
C9_Witness ==
  /\ pc = "idle"
  /\ variable["unrestricted"] = B(TRUE) /\ visible["spin"]
  /\ variable["theory"] = S("HF") /\ ~visible["dft:family"]

(***************************************************************************)
(* C10.  Recompute on every mutation: once the GUI is constructed, after   *)
(* any write to a variable the visibility rules have been re-evaluated on  *)
(* the current store, and when the event completes the editor's text is    *)
(* the generator's output for the current store.                           *)
(***************************************************************************)
C10_RecomputeOnMutation ==
  Running =>
    /\ questions = update_widgets(questions, variable)
    /\ error = ""
    /\ text
         = generate(build(get_values(questions, variable).values).inp).text

(***************************************************************************)
(* Schema loading                                                         *)
(***************************************************************************)

\* lines 195-207 have nothing to infer a type from
NothingToInfer(d) ==
  /\ ~Has(d, "type")
  /\ ~(Has(d, "default") /\ d.default # None)
  /\ ~(Has(d, "values") /\ NotNone(d.values) # <<>>)

\* C11: a descriptor with no type, no non-null default and no non-null
\* domain entry fails to load with the ValueError "could not infer type" and
\* with no other exception; a descriptor that loads has a type among the
\* four kinds and a default.
C11_TypeInferenceError ==
  [][pc = "schema" =>
       /\ NothingToInfer(desc) =>
            pc' = "failed" /\ error' = "ValueError: could not infer type"
       /\ pc' = "loaded" =>
            /\ Has(desc', "type") /\ desc'.type \in {"int", "bool", "str", "float"}
            /\ Has(desc', "default")]_vars

\* a descriptor is loaded in this step
Loads == pc = "schema" /\ pc' = "loaded"

\* C12 as stated: without an explicit default the resolved default is the
\* first non-null entry of the domain when there is a domain, and otherwise the
\* zero value of the type; an explicit default is kept.
C12_DefaultInferenceAsStated ==
  [][Loads =>
       IF Has(desc, "default") THEN desc'.default = desc.default
       ELSE IF Has(desc, "values")
            THEN /\ NotNone(desc.values) # <<>>
                 /\ desc'.default = NotNone(desc.values)[1]
       ELSE desc'.default = Zero(desc'.type)]_vars

\* C12, amended: without an explicit default the resolved default is the
\* first entry of the domain, null or not, when there is a domain, and
\* otherwise the zero value of the type; an explicit default is kept.
C12_DefaultInference ==
  [][Loads =>
       desc'.default =
         IF Has(desc, "default") THEN desc.default
         ELSE IF Has(desc, "values") THEN desc.values[1]
         ELSE Zero(desc'.type)]_vars

\* a domain that starts with a null entry was loaded without an explicit
\* default, as the domain of "relativity" is
C12_Witness ==
  /\ pc = "loaded"
  /\ Has(desc, "values")
  /\ desc.values = <<None, S("DKH"), S("ZORA")>>
  /\ desc.type = "str"
  /\ desc.default = None

(***************************************************************************)
(* The serialization of an ORCAInput                                       *)
(***************************************************************************)

\* generate has returned `text` for the mapping `inp`
Generates == pc \in {"generated", "generated again"}

\* the sections that generate does not write by itself
Named(key) == key \notin {"#", "!", "maxcore", "*"}

\* the non-null entries of a section, as they are written
Body(key) == strs(inp.at[key])

\* the named block of `key` starts at line p: an empty line, the header, one
\* line per non-null entry and the closing end
Block(key, p) ==
  /\ p > 1 /\ text[p - 1] = ""
  /\ text[p] = "%" \o key
  /\ p + Len(Body(key)) + 1 <= Len(text)
  /\ \A j \in DOMAIN Body(key) : text[p + j] = " " \o Body(key)[j]
  /\ text[p + Len(Body(key)) + 1] = "end"

HasHeader(key) == \E p \in DOMAIN text : text[p] = "%" \o key

\* C13: a named section is written as a block (header, one line per non-null
\* entry, end) only if it has a non-null entry; a named section with no
\* non-null entry, empty or all null, leaves no header and no end.
C13_NamedBlockSkipping ==
  Generates =>
    \A key \in Range(inp.keys) :
      Named(key) =>
        IF Body(key) = <<>> THEN ~HasHeader(key)
        ELSE \E p \in DOMAIN text : Block(key, p)

\* the line that an inline section gives
InlineLine(tag, key) ==
  \E p \in DOMAIN text : text[p] = tag \o " " \o Join(Body(key), " ")

\* the comments are the first lines, one per entry
CommentLines ==
  /\ Len(inp.at["#"]) <= Len(text)
  /\ \A p \in DOMAIN inp.at["#"] : text[p] = "# " \o PyStr(inp.at["#"][p])

\* C14 as stated: exactly the three keys "#", "!" and "*" are written inline,
\* and every other key that is written is a named block.
C14_InlineKeysAsStated ==
  Generates =>
    /\ CommentLines /\ InlineLine("!", "!") /\ InlineLine("*", "*")
    /\ \A key \in {"#", "!", "*"} : ~HasHeader(key)
    /\ \A key \in Range(inp.keys) \ {"#", "!", "*"} :
         Body(key) # <<>> => \E p \in DOMAIN text : Block(key, p)

\* C14, amended: exactly the four keys "#", "!", "maxcore" and "*" are written
\* inline, "maxcore" as the single line that starts with %maxcore, and every
\* other key that is written is a named block.
C14_InlineKeys ==
  Generates =>
    /\ CommentLines /\ InlineLine("!", "!") /\ InlineLine("*", "*")
    /\ InlineLine("%maxcore", "maxcore")
    /\ \A key \in {"#", "!", "maxcore", "*"} : ~HasHeader(key)
    /\ \A key \in Range(inp.keys) \ {"#", "!", "maxcore", "*"} :
         Body(key) # <<>> => \E p \in DOMAIN text : Block(key, p)

\* a memory limit and a block have been written
C14_Witness ==
  /\ Generates
  /\ inp.at["maxcore"] = <<S("x")>>
  /\ "scf" \in Range(inp.keys) /\ inp.at["scf"] = <<S("x")>>
  /\ text = <<"! ", "%maxcore x", "", "* ", "", "%scf", " x", "end">>

\* the position of a key in the order of first access
Position(key) == CHOOSE p \in DOMAIN accessed : accessed[p] = key

\* C15: the headers of the named blocks follow each other in the order in
\* which their keys were first read or assigned, whatever the sections hold.
C15_SectionOrder ==
  Generates =>
    \A k1, k2 \in {key \in Range(inp.keys) : Named(key)} :
      \A p, q \in DOMAIN text :
        text[p] = "%" \o k1 /\ text[q] = "%" \o k2 /\ p < q =>
          Position(k1) < Position(k2)

\* two blocks in the order of their first access, which is not the sorted one
C15_Witness ==
  /\ Generates
  /\ accessed = <<"scf", "geom", "#", "!", "maxcore", "*">>
  /\ inp.at["geom"] = <<S("x")>>
  /\ inp.at["scf"] = <<S("x")>>
  /\ text = <<"! ", "%maxcore ", "", "* ", "", "%scf", " x", "end",
              "", "%geom", " x", "end">>

\* C16: a second call of generate right after the first returns the same
\* text, also when the first call inserted inline keys.
C16_SerializationStable ==
  [][pc = "generated" /\ pc' = "generated again" => text' = text]_vars

\* generate was called twice on a mapping that the script left without the
\* keys "!", "maxcore" and "*"
C16_Witness ==
  /\ pc = "generated again"
  /\ inp.keys = <<"#", "scf", "!", "maxcore", "*">>
  /\ inp.at["#"] = <<S("x")>>
  /\ text = <<"# x", "! ", "%maxcore ", "", "* ", "", "%scf", "end">>

(***************************************************************************)
(* The tiers of the numerical quality                                      *)
(***************************************************************************)

\* the tokens of the keyword section of a document
Tokens(doc) == Range(doc.at["!"])

\* the level of the token of a numbered kind (Grid, FinalGrid, GridX) in a
\* keyword section, -1 when the section has no token of the kind
Level(kind, tokens) ==
  IF \E n \in 0..9 : S(kind \o ToString(n)) \in tokens
  THEN CHOOSE n \in 0..9 : S(kind \o ToString(n)) \in tokens
  ELSE -1

\* the same for the SCF convergence tokens, from loose to extreme
Convergence(tokens) ==
  CASE S("ExtremeSCF") \in tokens -> 4
    [] S("VeryTightSCF") \in tokens -> 3
    [] S("TightSCF") \in tokens -> 2
    [] S("LooseSCF") \in tokens -> 1
    [] OTHER -> -1

\* a token of the kind is kept with an equal or stricter level
Kept(before, after) == before >= 0 => after >= before

\* this step writes the numerical quality, from a tier to a higher tier, and
\* a document is generated before and after
Raised ==
  /\ pc = "idle" /\ pc' = "idle"
  /\ \A name \in Fields \ {"numerical:quality"} :
       variable'[name] = variable[name]
  /\ v["numerical:quality"] # None /\ v'["numerical:quality"] # None
  /\ v["numerical:quality"].i < v'["numerical:quality"].i

\* C17 as stated: from a tier to a higher tier, all other answers equal,
\* every kind of token (SCF convergence, Grid, FinalGrid, GridX) of the lower
\* tier is emitted for the higher tier with an equal or stricter level.
C17_MonotonicTiersAsStated ==
  [][Raised =>
       /\ Kept(Convergence(Tokens(inp)), Convergence(Tokens(inp')))
       /\ \A kind \in {"Grid", "FinalGrid", "GridX"} :
            Kept(Level(kind, Tokens(inp)), Level(kind, Tokens(inp')))]_vars

\* C17, amended: the same, except that the tier Fair emits no SCF
\* convergence token, and that NoFinalGrid stands for the FinalGrid token
\* when the Grid level is above 6.
C17_MonotonicTiers ==
  [][Raised =>
       /\ \/ Kept(Convergence(Tokens(inp)), Convergence(Tokens(inp')))
          \/ /\ v'["numerical:quality"] = I(0)
             /\ Convergence(Tokens(inp')) = -1
       /\ \/ Kept(Level("FinalGrid", Tokens(inp)),
                  Level("FinalGrid", Tokens(inp')))
          \/ /\ Level("Grid", Tokens(inp')) > 6
             /\ S("NoFinalGrid") \in Tokens(inp')
       /\ \A kind \in {"Grid", "GridX"} :
            Kept(Level(kind, Tokens(inp)), Level(kind, Tokens(inp')))]_vars

\* the tier Excellent of a hybrid functional with RIJCOSX: every kind of
\* token is there, stricter than those of the tier Good
C17_Witness ==
  /\ pc = "idle"
  /\ variable["numerical:quality"] = S("Excellent")
  /\ {S("VeryTightSCF"), S("Grid6"), S("FinalGrid7"), S("GridX6")}
       \subseteq Tokens(inp)

(***************************************************************************)
(* The window as a function of the store                                   *)
(***************************************************************************)

\* the flags and the editor are those of the run `run`
SameAs(run) == visible = run.q.visible /\ text = run.text

\* C18: between two events, the visibility flags and the text of the editor
\* are those that a window just created reaches on the current store alone,
\* whatever edits and clears led to the store.
C18_HistoryIndependence ==
  pc = "idle" =>
    SameAs(InputGUI_update_widgets(
             created, variable,
             [v |-> [name \in Fields |-> None], inp |-> ORCAInput,
              text |-> <<>>]))

\* the store that Clear leaves: every variable set to its default
Reset ==
  [name \in Fields |-> tk_set(type[name], init_values(file, TRUE)[name])]

\* C19: the write trace that runs after a round of the loop of Clear sees the
\* store as it was before Clear (no round has changed a variable yet) or as
\* Clear leaves it (every variable at its default), never a store in between.
C19_ConsistentSnapshot ==
  pc = "clear" /\ idx > 1 => ~rewritten \/ variable = Reset

(***************************************************************************)
(* Widgets and flags                                                       *)
(***************************************************************************)

\* in the questionnaire q the widget of every field, and its label when it
\* has one, is on the screen iff the flag of the field is set
Follows(q) ==
  \A name \in Fields :
    /\ q.widget[name] = q.visible[name]
    /\ name \in DOMAIN q.label => q.label[name] = q.visible[name]

\* C20: the widgets and labels follow the flags after every update_widgets of
\* a session and after an enable, disable or toggle of any field; enable and
\* disable leave a field that is in the requested state untouched, and a second
\* call changes nothing.
C20_WidgetFollowsFlag ==
  /\ Follows(questions)
  /\ \A name \in Fields :
       /\ Follows(toggle(questions, name))
       /\ Follows(enable(questions, name))
       /\ Follows(disable(questions, name))
       /\ visible[name] => enable(questions, name) = questions
       /\ ~visible[name] => disable(questions, name) = questions
       /\ enable(enable(questions, name), name) = enable(questions, name)
       /\ disable(disable(questions, name), name) = disable(questions, name)

\* update_widgets has hidden the functional family with its label and shown
\* the method of the excited states
C20_Witness ==
  /\ pc = "idle"
  /\ variable["theory"] = S("HF")
  /\ ~visible["dft:family"] /\ ~widget["dft:family"] /\ ~label["dft:family"]
  /\ variable["excited states"] = B(TRUE)
  /\ visible["excited states:method"] /\ widget["excited states:method"]

(***************************************************************************)
(* Reading an ORCAInput                                                    *)
(***************************************************************************)

\* C30: looking up a key that was never set, by subscript (which get with a
\* default evaluates too) or by a membership test, leaves the keys and the
\* length of the mapping as they are, and the membership test answers false.
C30_ReadsLeaveUnchanged ==
  pc = "script" =>
    \A key \in Keys \ Range(inp.keys) :
      /\ getitem(inp, key).keys = inp.keys
      /\ Len(getitem(inp, key).keys) = Len(inp.keys)
      /\ contains(inp, key).inp.keys = inp.keys
      /\ ~contains(inp, key).answer

(***************************************************************************)
(* The RI variant on the screen                                            *)
(***************************************************************************)

\* C29: whenever the keyword section of the generated document holds the
\* NoRI marker, the field ri:hf is hidden; and whenever ri:hf is on the screen
\* its translated value is a keyword of the section.
C29_NoIgnoredRIChoice ==
  Serialized =>
    /\ S("NoRI") \in Tokens(inp) => ~visible["ri:hf"]
    /\ visible["ri:hf"] => v["ri:hf"] \in Tokens(inp)

(***************************************************************************)
(* The method: theory, family, functional                                  *)
(***************************************************************************)

\* the field of the functionals of a family
Functional(family) == "dft:" \o Lower(family.s)

DFT == variable["theory"] = S("DFT")

\* the family field is shown iff the theory is DFT, and the functionals of a
\* family iff the theory is DFT and the family is the selected one
FamilyDispatch ==
  /\ visible["dft:family"] <=> DFT
  /\ \A family \in Range(dft_families) :
       visible[Functional(family)]
         <=> DFT /\ variable["dft:family"] = family
  /\ Cardinality({family \in Range(dft_families) :
                    visible[Functional(family)]})
       = IF DFT THEN 1 ELSE 0

\* the method before any prefix: the functional on the screen, the
\* Hamiltonian, or the theory
Method ==
  IF DFT
  THEN v[CHOOSE name \in {Functional(family) : family \in Range(dft_families)} :
           visible[name]].s
  ELSE IF variable["theory"] = S("DFTB") THEN v["dftb:hamiltonian"].s
  ELSE variable["theory"].s

\* the keyword section holds the method m, as it is or after DLPNO- or RI-
Emitted(m) ==
  \E pre \in {"", "DLPNO-", "RI-"} : S(pre \o m) \in Tokens(inp)

\* C21 as stated: the family and functional fields are shown as FamilyDispatch
\* says, and the keyword line of a generated document holds the method,
\* possibly after the prefix DLPNO- or RI-.
C21_MethodDispatchAsStated ==
  /\ Running => FamilyDispatch
  /\ Serialized => Emitted(Method)

\* C21, amended: the same, where the method of the theory CCSD is followed by
\* (T) when the triples correction is ticked.
C21_MethodDispatch ==
  /\ Running => FamilyDispatch
  /\ Serialized =>
       Emitted(IF v["theory"] = S("CCSD") /\ Truthy(v["triples correction"])
               THEN Method \o "(T)"
               ELSE Method)

\* a double hybrid with DLPNO: one functional field on the screen, and its
\* value on the keyword line after the prefix
C21_Witness ==
  /\ Serialized
  /\ variable["dft:family"] = S("Double-Hybrid") /\ DFT
  /\ visible["dft:double-hybrid"] /\ ~visible["dft:gga"]
  /\ S("DLPNO-" \o v["dft:double-hybrid"].s) \in Tokens(inp)

(***************************************************************************)
(* The task                                                                *)
(***************************************************************************)

\* the tokens of the keyword section that name a task; TightOpt is the
\* convergence criterion of the optimisation
EmittedTask ==
  {t \in Tokens(inp) :
     /\ IsStr(t)
     /\ t # S("TightOpt")
     /\ \/ t = S("Energy")
        \/ \E word \in {"Opt", "Freq", "IRC", "NEB"} : Contains(word, t.s)}

\* numerical frequencies are forced: a relativistic approximation, RIJK on the
\* keyword line, DFTB, or a meta-GGA or double-hybrid family of DFT
Forced ==
  \/ variable["relativity"] # S("None")
  \/ S("RIJK") \in Tokens(inp)
  \/ variable["theory"] = S("DFTB")
  \/ /\ DFT
     /\ variable["dft:family"]
          \in Strings({"meta-GGA", "Double-Hybrid", "RS-Double-Hybrid"})

\* the task s with new written for every old, when cond holds
Rewritten(cond, s, old, new) == IF cond THEN Replace(s, old, new) ELSE s

\* C22: the task of a generated document is the translated task answer with
\* Opt NumGrad written for every Opt iff the theory is CCSD and NumFreq for
\* every Freq iff numerical frequencies are forced, nothing else changed; the
\* keyword section holds it iff it is not Energy, and no other task.
C22_TaskRewriting ==
  Serialized =>
    EmittedTask =
      {S(Rewritten(Forced,
                   Rewritten(variable["theory"] = S("CCSD"), v["task"].s,
                             "Opt", "Opt NumGrad"),
                   "Freq", "NumFreq"))} \ {S("Energy")}

\* both rewritings at once
C22_Witness ==
  /\ Serialized
  /\ variable["theory"] = S("CCSD")
  /\ variable["relativity"] = S("DKH")
  /\ variable["task"] = S("Opt+Freq")
  /\ S("Opt NumGrad NumFreq") \in Tokens(inp)

RECURSIVE Words(_)
\* the space-separated words of s
Words(s) ==
  IF \E p \in 1..Len(s) : SubSeq(s, p, p) = " "
  THEN {SubSeq(s, 1, (CHOOSE p \in 1..Len(s) :
                        /\ SubSeq(s, p, p) = " "
                        /\ \A q \in 1..(p - 1) : SubSeq(s, q, q) # " ") - 1)}
         \cup Words(SubSeq(s, (CHOOSE p \in 1..Len(s) :
                                 /\ SubSeq(s, p, p) = " "
                                 /\ \A q \in 1..(p - 1) : SubSeq(s, q, q) # " ")
                               + 1, Len(s)))
  ELSE {s}

\* C27: every space-separated word of the task of a generated document is
\* one of the keywords Opt, OptTS, Freq, NumFreq, NumGrad, IRC, NEB.
C27_WellFormedTask ==
  Serialized =>
    \A t \in EmittedTask :
      Words(t.s) \subseteq
        {"Opt", "OptTS", "Freq", "NumFreq", "NumGrad", "IRC", "NEB"}

(***************************************************************************)
(* The solvation                                                           *)
(***************************************************************************)

\* the solvent field of the active family
Active ==
  IF variable["theory"] = S("DFTB") THEN "solvation:gbsa"
  ELSE IF variable["solvation:model"] = S("CPCM") THEN "solvation:cpcm"
  ELSE "solvation:smd"

\* the entries of a section of the document, none for a key it does not have
Entries(doc, key) ==
  IF key \in Range(doc.keys) THEN Range(doc.at[key]) ELSE {}

\* the solvents the document names, in the keyword CPCM(...) or in the entry
\* smdsolvent of the block cpcm
Solvents ==
  {t.s : t \in {t \in Tokens(inp) : IsStr(t) /\ StartsWith(t.s, "CPCM(")}}
    \cup {t.s : t \in {t \in Entries(inp, "cpcm") :
                         StartsWith(t.s, "smdsolvent")}}

\* C23: with the solvation enabled, the solvent field of the active family is
\* on the screen and the document names its solvent and no other; with the
\* solvation disabled the document has no solvent keyword and no block cpcm.
C23_SolventDispatch ==
  Serialized =>
    IF variable["solvation"] = B(TRUE)
    THEN /\ visible[Active] /\ v[Active] # None
         /\ Solvents \in {{"CPCM(" \o Lower(v[Active].s) \o ")"},
                          {"smdsolvent \"" \o Lower(v[Active].s) \o "\""}}
    ELSE /\ Solvents = {}
         /\ "cpcm" \notin Range(inp.keys)
         /\ \A p \in DOMAIN text : ~StartsWith(text[p], "%cpcm")

\* the three solvent fields hold three solvents and the active one is named
C23_Witness ==
  /\ Serialized
  /\ variable["solvation"] = B(TRUE)
  /\ variable["theory"] = S("HF")
  /\ variable["solvation:model"] = S("CPCM")
  /\ variable["solvation:cpcm"] = S("Dimethyl sulfoxide")
  /\ variable["solvation:smd"] = S("Nitromethane")
  /\ variable["solvation:gbsa"] = S("Diethyl ether")
  /\ Solvents = {"CPCM(dmso)"}

\* C28: the block cpcm holds the entries smd true and smdsolvent iff the
\* solvation is enabled and the active model is SMD, which it never is for
\* the theory DFTB.
C28_SMDOnlyForSMD ==
  Serialized =>
    /\ S("smd true") \in Entries(inp, "cpcm")
         <=> variable["solvation"] = B(TRUE) /\ Active = "solvation:smd"
    /\ (\E t \in Entries(inp, "cpcm") : StartsWith(t.s, "smdsolvent"))
         <=> variable["solvation"] = B(TRUE) /\ Active = "solvation:smd"

(***************************************************************************)
(* The memory of a process                                                 *)
(***************************************************************************)

\* the lines of the editor that start with %maxcore
MaxcoreLines == {p \in DOMAIN text : StartsWith(text[p], "%maxcore")}

\* C24: the section maxcore holds one entry, the largest integer n with
\* n * nprocs <= memory, and the text one line %maxcore n.
C24_MemoryPerProcess ==
  Serialized =>
    \E n \in 0..variable["memory"].i :
      /\ n * variable["nprocs"].i <= variable["memory"].i
      /\ (n + 1) * variable["nprocs"].i > variable["memory"].i
      /\ inp.at["maxcore"] = <<I(n)>>
      /\ Cardinality(MaxcoreLines) = 1
      /\ \A p \in MaxcoreLines : text[p] = "%maxcore " \o ToString(n)

\* a quotient that is truncated: 6500 / 32 = 203.125
C24_Witness ==
  /\ Serialized
  /\ variable["memory"] = I(6500) /\ variable["nprocs"] = I(32)
  /\ inp.at["maxcore"] = <<I(203)>>
  /\ \E p \in DOMAIN text : text[p] = "%maxcore 203"

(***************************************************************************)
(* Clear                                                                   *)
(***************************************************************************)

\* the last round of the loop of Clear, after which the handler returns
Completes == pc = "clear" /\ pc' = "idle"

\* C25 as stated: when Clear completes every variable holds the default of
\* its field and the flags are those that the rules give for the defaults,
\* whatever the store was and whatever the state file holds; no step of Clear
\* changes the state file.
C25_ClearResetsAsStated ==
  [][/\ Completes =>
          /\ \A name \in Fields : variable'[name] = default[name]
          /\ visible' = update_widgets(created, variable').visible
     /\ pc = "clear" \/ pc' = "clear" => file' = file]_vars

\* C25, amended: the same, where a text variable holds the text of the
\* default, which for a default that is null is the text None.
C25_ClearResets ==
  [][/\ Completes =>
          /\ \A name \in Fields :
               variable'[name] = IF type[name] = "str" /\ default[name] = None
                                 THEN S("None")
                                 ELSE default[name]
          /\ visible' = update_widgets(created, variable').visible
     /\ pc = "clear" \/ pc' = "clear" => file' = file]_vars

\* Clear has completed in a session that was started from a state file with
\* other answers than the defaults, and the file still holds them
C25_Witness ==
  /\ pc = "idle"
  /\ file.kind = "state"
  /\ file.state["theory"] = S("HF") /\ file.state["unrestricted"] = B(TRUE)
  /\ variable["theory"] = S("DFT") /\ variable["unrestricted"] = B(FALSE)

(***************************************************************************)
(* A questionnaire without a state file                                    *)
(***************************************************************************)

\* C26: a questionnaire whose state_filename is None starts without raising,
\* with every variable at the default of its field, and its store_widgets
\* writes nothing.
C26_NoStateFilename ==
  [][pc = "start" /\ file.kind = "unnamed" =>
       /\ pc' = "idle" /\ error' = ""
       /\ \A name \in Fields :
            variable'[name] = tk_set(type[name], default[name])
       /\ store_widgets(variable', file) = file]_vars
====
